---- MODULE Spec2Model ----
(***************************************************************************)
(* A model of the varwolf style engine: the serializer and hasher that     *)
(* name a style description, the transformer that resolves it, and the     *)
(* injector that writes its rules into the shared <style> element.         *)
(*                                                                         *)
(* A JavaScript string is a sequence of one-character strings, so that     *)
(* prefix tests, kebab-casing, sorting and hashing are computed on its     *)
(* characters.  A JavaScript object is the sequence of its entries         *)
(* [k |-> key, v |-> value] in insertion order.                            *)
(***************************************************************************)
EXTENDS Integers, Sequences, FiniteSets

VARIABLES
    IS_DEV,         \* dev-warnings.ts IS_DEV: text mode (TRUE) or rule-object mode
    warningsEnabled, \* dev-warnings.ts warningsEnabled
    sheetReady,     \* the document gives a connected <style> element a live sheet
    styleTags,      \* the number of elements with id "varwolf-styles" in the document
    textContent,    \* the element's textContent
    cssRules,       \* the cssRules of the element's sheet, as their texts
    STYLE_CACHE,    \* inject.ts STYLE_CACHE
    call,           \* the last call: its arguments, the state it was made in,
                    \* what it did and what it wrote to the console
    prev,           \* the call before it
    rendered,       \* for each cached key, the rules its injecting call built
    failed,         \* the keys whose latest injectCSS call found no sheet
    prevHashRef,    \* use-varwolf.ts prevHashRef.current of the mounted component
    cachedResultRef, \* use-varwolf.ts cachedResultRef.current of that component
    renders,        \* what each render of that component did and returned
    A, B,           \* transformer runs: two key-order variants of one description
    pc, outA, outB  \* the stage of the run and the outputs for A and B

vars == <<IS_DEV, warningsEnabled, sheetReady, styleTags, textContent, cssRules, STYLE_CACHE,
          call, prev, rendered, failed, prevHashRef, cachedResultRef, renders,
          A, B, pc, outA, outB>>

injVars == <<IS_DEV, warningsEnabled, sheetReady, styleTags, textContent, cssRules, STYLE_CACHE,
             call, prev, rendered, failed>>

runVars == <<A, B, pc, outA, outB>>

hookVars == <<prevHashRef, cachedResultRef, renders>>

----------------------------------------------------------------------------
(* Characters and strings *)

\* Body(value), with value computed once and handed on as a value
With(value, Body(_)) == CHOOSE r \in {Body(v) : v \in {value}} : TRUE

LowerCase == <<"a","b","c","d","e","f","g","h","i","j","k","l","m",
               "n","o","p","q","r","s","t","u","v","w","x","y","z">>
UpperCase == <<"A","B","C","D","E","F","G","H","I","J","K","L","M",
               "N","O","P","Q","R","S","T","U","V","W","X","Y","Z">>
Digits == <<"0","1","2","3","4","5","6","7","8","9">>

IndexIn(seq, c) == CHOOSE i \in 1..Len(seq) : seq[i] = c
IsIn(seq, c) == \E i \in 1..Len(seq) : seq[i] = c

IsLower(c) == IsIn(LowerCase, c)
IsUpper(c) == IsIn(UpperCase, c)
IsDigit(c) == IsIn(Digits, c)
IsSpace(c) == c = " "

\* String.prototype.charCodeAt for the characters the model uses
charCodeAt(c) ==
    IF IsLower(c) THEN 96 + IndexIn(LowerCase, c)
    ELSE IF IsUpper(c) THEN 64 + IndexIn(UpperCase, c)
    ELSE IF IsDigit(c) THEN 47 + IndexIn(Digits, c)
    ELSE CASE c = " " -> 32 [] c = "\"" -> 34 [] c = "'" -> 39
           [] c = "(" -> 40 [] c = ")" -> 41 [] c = "*" -> 42
           [] c = "+" -> 43 [] c = "," -> 44 [] c = "-" -> 45
           [] c = "." -> 46 [] c = "/" -> 47 [] c = ":" -> 58
           [] c = ";" -> 59 [] c = "=" -> 61 [] c = ">" -> 62
           [] c = "\\" -> 92 [] c = "_" -> 95 [] c = "{" -> 123
           [] c = "}" -> 125

\* The concatenation of Piece(lo), ..., Piece(hi), by halves, so that a long
\* string does not make a deep recursion
RECURSIVE FlatMap(_, _, _)
FlatMap(Piece(_), lo, hi) ==
    IF lo > hi THEN <<>>
    ELSE IF lo = hi THEN Piece(lo)
    ELSE LET mid == (lo + hi) \div 2
         IN  FlatMap(Piece, lo, mid) \o FlatMap(Piece, mid + 1, hi)

toLowerChar(c) == IF IsUpper(c) THEN LowerCase[IndexIn(UpperCase, c)] ELSE c

toLowerCase(s) == FlatMap(LAMBDA i : <<toLowerChar(s[i])>>, 1, Len(s))

\* the first position from i on that holds no white space
RECURSIVE SkipSpaces(_, _)
SkipSpaces(s, i) == IF i <= Len(s) /\ IsSpace(s[i]) THEN SkipSpaces(s, i + 1) ELSE i

startsWith(s, p) == Len(s) >= Len(p) /\ SubSeq(s, 1, Len(p)) = p
slice(s, n) == SubSeq(s, n + 1, Len(s))

RECURSIVE Concat(_)
Concat(ss) == IF ss = <<>> THEN <<>> ELSE Head(ss) \o Concat(Tail(ss))

\* Array.prototype.join
RECURSIVE join(_, _)
join(ss, sep) ==
    IF ss = <<>> THEN <<>>
    ELSE IF Len(ss) = 1 THEN ss[1]
    ELSE ss[1] \o sep \o join(Tail(ss), sep)

\* a < b in the code-unit order Array.prototype.sort uses by default
RECURSIVE StrLess(_, _)
StrLess(a, b) ==
    IF b = <<>> THEN FALSE
    ELSE IF a = <<>> THEN TRUE
    ELSE IF charCodeAt(a[1]) < charCodeAt(b[1]) THEN TRUE
    ELSE IF charCodeAt(a[1]) > charCodeAt(b[1]) THEN FALSE
    ELSE StrLess(Tail(a), Tail(b))

----------------------------------------------------------------------------
(* utils/to-kebab-case.ts *)

\* .replace(/_/g, "-")
underscoresToHyphens(s) ==
    FlatMap(LAMBDA i : <<IF s[i] = "_" THEN "-" ELSE s[i]>>, 1, Len(s))

\* .replace(/([a-z0-9])([A-Z])/g, "$1-$2"): matches do not overlap, and a
\* match needs a lower-case letter or digit before an upper-case letter, so
\* every such pair is a match
hyphenBeforeUpper(s) ==
    FlatMap(LAMBDA i : IF i < Len(s) /\ (IsLower(s[i]) \/ IsDigit(s[i]))
                           /\ IsUpper(s[i + 1])
                        THEN <<s[i], "-">> ELSE <<s[i]>>,
            1, Len(s))

toKebabCase(str) ==
    LET a == IF startsWith(str, <<"_", "_">>) THEN slice(str, 2) ELSE str
        b == underscoresToHyphens(a)
        c == hyphenBeforeUpper(b)
    IN  toLowerCase(c)

----------------------------------------------------------------------------
(* JavaScript objects as entry sequences *)

HasKey(obj, key) == \E i \in 1..Len(obj) : obj[i].k = key
Get(obj, key) == obj[CHOOSE i \in 1..Len(obj) : obj[i].k = key].v

\* obj[key] = value: an existing key keeps its place, a new one goes last
RECURSIVE Put(_, _, _)
Put(obj, key, value) ==
    IF obj = <<>> THEN <<[k |-> key, v |-> value]>>
    ELSE IF obj[1].k = key THEN <<[k |-> key, v |-> value]>> \o Tail(obj)
    ELSE <<obj[1]>> \o Put(Tail(obj), key, value)

\* Object.assign(target, source)
RECURSIVE Assign(_, _)
Assign(target, source) ==
    IF source = <<>> THEN target
    ELSE Assign(Put(target, source[1].k, source[1].v), Tail(source))

----------------------------------------------------------------------------
(* Values of a description.  A number is held in hundredths. *)

Num(n) == [t |-> "number", n |-> n]
StrV(s) == [t |-> "string", s |-> s]
Fn(src, body) == [t |-> "function", src |-> src, body |-> body]
Obj(entries) == [t |-> "object", e |-> entries]
Null == [t |-> "null"]

RECURSIVE DigitsOf(_)
DigitsOf(n) ==
    IF n < 10 THEN <<Digits[n + 1]>>
    ELSE DigitsOf(n \div 10) \o <<Digits[(n % 10) + 1]>>

\* Number.prototype.toString of a non-negative number of at most two decimals
NumberToString(n) ==
    LET whole == DigitsOf(n \div 100)
        frac == n % 100
    IN  IF frac = 0 THEN whole
        ELSE IF frac % 10 = 0 THEN whole \o <<".", Digits[(frac \div 10) + 1]>>
        ELSE whole \o <<".", Digits[(frac \div 10) + 1], Digits[(frac % 10) + 1]>>

----------------------------------------------------------------------------
(* utils/fnv1a.ts.  A 32-bit value is the pair <<high, low>> of its 16-bit
   halves, so that no intermediate value leaves the range of TLC's
   integers; the product, which JavaScript computes in double arithmetic, is
   held in four 16-bit limbs and rounded to 53 significant bits as a double
   is. *)

HALF == 65536

RECURSIVE BitXor(_, _)
BitXor(a, b) ==
    IF a = 0 THEN b
    ELSE IF b = 0 THEN a
    ELSE 2 * BitXor(a \div 2, b \div 2) + ((a + b) % 2)

\* lines 29-30 of fnv1a.ts: 2166136261 = 0x811C9DC5 and 16777619 = 0x01000193
FNV_OFFSET_BASIS == <<33052, 40389>>
FNV_PRIME_HIGH == 256
FNV_PRIME_LOW == 403

\* line 35: hash ^= str.charCodeAt(i), an int32: <<negative, magnitude>>
XorStep(hash, code) ==
    LET hi == hash[1]
        lo == BitXor(hash[2], code)
    IN  IF hi < 32768 THEN [neg |-> FALSE, m |-> <<hi, lo>>]
        ELSE \* two's complement: the magnitude is 2^32 - value
             [neg |-> TRUE,
              m |-> IF lo = 0 THEN <<HALF - hi, 0>> ELSE <<HALF - 1 - hi, HALF - lo>>]

\* the exact product m * FNV_PRIME, as limbs <<p3, p2, p1, p0>>
ExactProduct(m) ==
    LET t0 == m[2] * FNV_PRIME_LOW
        a0 == t0 % HALF
        t1 == m[1] * FNV_PRIME_LOW + (t0 \div HALF)
        a1 == t1 % HALF
        a2 == t1 \div HALF
        u0 == m[2] * FNV_PRIME_HIGH
        b0 == u0 % HALF
        u1 == m[1] * FNV_PRIME_HIGH + (u0 \div HALF)
        b1 == u1 % HALF
        b2 == u1 \div HALF
        s1 == a1 + b0
        s2 == a2 + b1 + (s1 \div HALF)
    IN  <<b2 + (s2 \div HALF), s2 % HALF, s1 % HALF, a0>>

\* the double nearest to the product (ties to even), modulo 2^32: a double
\* holds 53 significant bits, so a product of 2^53 or more is rounded to a
\* multiple of 2, 4 or 8
RoundedLow32(p) ==
    LET q == IF p[1] < 32 THEN 1 ELSE IF p[1] < 64 THEN 2
             ELSE IF p[1] < 128 THEN 4 ELSE 8
        rem == p[4] % q
        odd == (p[4] \div q) % 2 = 1
        up == 2 * rem > q \/ (2 * rem = q /\ odd)
        l0 == p[4] - rem + (IF up THEN q ELSE 0)
    IN  IF l0 >= HALF THEN <<(p[3] + 1) % HALF, l0 - HALF>> ELSE <<p[3], l0>>

\* line 36: (hash * FNV_PRIME) >>> 0
MultiplyStep(x) ==
    LET r == RoundedLow32(ExactProduct(x.m))
    IN  IF ~x.neg \/ r = <<0, 0>> THEN r
        ELSE IF r[2] = 0 THEN <<HALF - r[1], 0>>
        ELSE <<HALF - 1 - r[1], HALF - r[2]>>

\* lines 34-37: the loop over str[lo..hi], started with hash; the range is
\* walked by halves, in order
RECURSIVE HashLoop(_, _, _, _)
HashLoop(hash, str, lo, hi) ==
    IF lo > hi THEN hash
    ELSE IF lo = hi THEN MultiplyStep(XorStep(hash, charCodeAt(str[lo])))
    ELSE LET mid == (lo + hi) \div 2
         IN  With(HashLoop(hash, str, lo, mid),
                  LAMBDA left : HashLoop(left, str, mid + 1, hi))

Base36Digits == Digits \o LowerCase

\* Number.prototype.toString(36) of a 32-bit value
RECURSIVE toBase36(_)
toBase36(h) ==
    LET qh == h[1] \div 36
        mid == (h[1] % 36) * HALF + h[2]
        ql == mid \div 36
        digit == <<Base36Digits[(mid % 36) + 1]>>
    IN  IF qh = 0 /\ ql = 0 THEN digit
        ELSE toBase36(<<qh + (ql \div HALF), ql % HALF>>) \o digit

fnv1a(str) == toBase36(HashLoop(FNV_OFFSET_BASIS, str, 1, Len(str)))

----------------------------------------------------------------------------
(* utils/to-stable-string.ts *)

\* Object.keys(val).sort(): insertion into a sequence kept in code-unit order
RECURSIVE InsertSorted(_, _)
InsertSorted(sorted, entry) ==
    IF sorted = <<>> THEN <<entry>>
    ELSE IF StrLess(entry.k, sorted[1].k) THEN <<entry>> \o sorted
    ELSE <<sorted[1]>> \o InsertSorted(Tail(sorted), entry)

RECURSIVE SortEntries(_)
SortEntries(obj) ==
    IF obj = <<>> THEN <<>>
    ELSE InsertSorted(SortEntries(Tail(obj)), obj[1])

\* a copy that keeps the keys in the order they were written in
UnsortedCopy(obj) == obj

\* lines 54-59: the copy of val whose keys are in sorted order
SortedCopy(obj) == SortEntries(obj)

\* JSON's quoting of a string
Escaped(s) ==
    FlatMap(LAMBDA i : IF s[i] = "\"" \/ s[i] = "\\" THEN <<"\\", s[i]>> ELSE <<s[i]>>,
            1, Len(s))

Quoted(s) == <<"\"">> \o Escaped(s) \o <<"\"">>

\* line 46: val.toString().replace(/\s+/g, " ").trim()
CollapseSpaces(s) ==
    FlatMap(LAMBDA i : IF ~IsSpace(s[i]) THEN <<s[i]>>
                        ELSE IF i > 1 /\ IsSpace(s[i - 1]) THEN <<>> ELSE <<" ">>,
            1, Len(s))

trim(s) ==
    LET a == IF s # <<>> /\ IsSpace(s[1]) THEN Tail(s) ELSE s
    IN  IF a # <<>> /\ IsSpace(a[Len(a)]) THEN SubSeq(a, 1, Len(a) - 1) ELSE a

FunctionText(fn) == trim(CollapseSpaces(fn.src))

\* lines 37-64: JSON.stringify(value, replacer)
RECURSIVE Stringify(_)
RECURSIVE StringifyEntries(_)
StringifyEntries(obj) ==
    IF obj = <<>> THEN <<>>
    ELSE <<Quoted(obj[1].k) \o <<":">> \o Stringify(obj[1].v)>>
         \o StringifyEntries(Tail(obj))

Stringify(value) ==
    CASE value.t = "number" -> NumberToString(value.n)
      [] value.t = "string" -> Quoted(value.s)
      [] value.t = "function" -> Quoted(FunctionText(value))
      [] value.t = "null" -> <<"n","u","l","l">>
      [] value.t = "object" ->
            <<"{">> \o join(StringifyEntries(SortedCopy(value.e)), <<",">>) \o <<"}">>

toStableString(value) == Stringify(value)

\* an object whose keys were sorted in place
SortedInPlace(obj) == SortEntries(obj)

\* lines 54-59: what val is once the replacer has returned: reduce writes
\* the keys into a new object acc and only reads val
AfterReplacer(obj) == obj

\* lines 37-64: what the value passed to toStableString is once it has
\* returned; the replacer is called on every nested object
RECURSIVE AfterStableString(_)
AfterStableString(value) ==
    IF value.t # "object" THEN value
    ELSE [t |-> "object",
          e |-> AfterReplacer([i \in 1..Len(value.e) |->
                                  [k |-> value.e[i].k,
                                   v |-> AfterStableString(value.e[i].v)]])]

----------------------------------------------------------------------------
(* core/stable-hash.ts *)

createStableHash(value) == <<"v", "w", "-">> \o fnv1a(toStableString(value))

----------------------------------------------------------------------------
(* Resolver functions.  src is the function's source text, which
   extractFromParam inspects and toStableString serializes; body names what
   the function computes from its first argument. *)

\* Number(s) for the strings the model's resolvers read: "" is 0, a decimal
\* numeral is its value, anything else is NaN
RECURSIVE DigitsValue(_, _)
DigitsValue(s, acc) ==
    IF s = <<>> THEN acc
    ELSE DigitsValue(Tail(s), acc * 10 + (IndexIn(Digits, s[1]) - 1))

AllDigits(s) == s # <<>> /\ \A i \in 1..Len(s) : IsDigit(s[i])

NaN == [t |-> "NaN"]

Number(s) ==
    LET parts == IF s = <<>> THEN <<>> ELSE
                 LET dot == {i \in 1..Len(s) : s[i] = "."}
                 IN  IF dot = {} THEN <<s>>
                     ELSE LET d == CHOOSE i \in dot : \A j \in dot : i <= j
                          IN  <<SubSeq(s, 1, d - 1), SubSeq(s, d + 1, Len(s))>>
    IN  IF s = <<>> THEN Num(0)
        ELSE IF Len(parts) = 1 /\ AllDigits(parts[1])
             THEN Num(100 * DigitsValue(parts[1], 0))
        ELSE IF Len(parts) = 2 /\ AllDigits(parts[1]) /\ AllDigits(parts[2])
                /\ Len(parts[2]) <= 2
             THEN Num(100 * DigitsValue(parts[1], 0)
                      + (IF Len(parts[2]) = 1 THEN 10 ELSE 1) * DigitsValue(parts[2], 0))
        ELSE NaN

\* x * 0.9 in double arithmetic, for the x whose product is the exact decimal
\* (0, 1, 1.2 and 0.9 are; the model applies the function to no other number)
TimesPointNine(x) ==
    IF x.t = "NaN" THEN <<"N", "a", "N">>
    ELSE CASE (x.n * 9) % 10 = 0 /\ x.n \in {0, 90, 100, 120} ->
              NumberToString((x.n * 9) \div 10)

\* What a resolver returns for currentValue, as String(...) of it; a
\* resolver that throws returns nothing
Throws(fn) == fn.body = "throw"

Apply(fn, currentValue) ==
    CASE fn.body = "times0.9" -> TimesPointNine(Number(currentValue))
      [] fn.body = "paren" -> <<"(">> \o currentValue \o <<")">>

----------------------------------------------------------------------------
(* core/transform.ts *)

IsQuote(c) == c = "\"" \/ c = "'"

\* the last position of the run of non-quote characters that starts at i
RunEnd(s, i) ==
    LET quotes == {j \in i..Len(s) : IsQuote(s[j])}
    IN  IF quotes = {} THEN Len(s)
        ELSE (CHOOSE j \in quotes : \A k \in quotes : j <= k) - 1

\* lines 16-20: fnString.match(/from\s*=\s*["']([^"']+)["']/) tried at
\* position i: the captured group, or <<>> when there is no match there
FromMatchAt(s, i) ==
    IF ~(i + 3 <= Len(s) /\ SubSeq(s, i, i + 3) = <<"f","r","o","m">>) THEN <<>>
    ELSE LET eq == SkipSpaces(s, i + 4)
         IN  IF ~(eq <= Len(s) /\ s[eq] = "=") THEN <<>>
             ELSE LET q == SkipSpaces(s, eq + 1)
                  IN  IF ~(q <= Len(s) /\ IsQuote(s[q])) THEN <<>>
                      ELSE LET e == RunEnd(s, q + 1)
                           IN  IF e >= q + 1 /\ e + 1 <= Len(s) /\ IsQuote(s[e + 1])
                               THEN SubSeq(s, q + 1, e)
                               ELSE <<>>

\* the requested state, or <<>> for undefined
extractFromParam(fn) ==
    LET hits == {i \in 1..Len(fn.src) : FromMatchAt(fn.src, i) # <<>>}
    IN  IF hits = {} THEN <<>>
        ELSE FromMatchAt(fn.src, CHOOSE i \in hits : \A j \in hits : i <= j)

\* constants/valid-css-pseudo-classes.ts lines 72-89, the members the model uses
MOST_COMMON_PSEUDO_CLASSES_SET ==
    { <<"h","o","v","e","r">>, <<"a","c","t","i","v","e">>,
      <<"d","i","s","a","b","l","e","d">>, <<"f","o","c","u","s">> }

BASE == <<"b","a","s","e">>

RootContext ==
    [root |-> TRUE, parentVars |-> <<>>, stateVarsMap |-> <<>>,
     parentPseudoClasses |-> <<>>]

\* "--" + toKebabCase(key.slice(2))
VarName(key) == <<"-", "-">> \o toKebabCase(slice(key, 2))

\* a test that takes every key that starts with an underscore
AnyUnderscore(key) == startsWith(key, <<"_">>)

\* line 35
IsVariableKey(key) == startsWith(key, <<"_", "_">>)
\* line 47, reached when line 35 is false
IsStateKey(key) == ~IsVariableKey(key) /\ startsWith(key, <<"_">>)
IsLiteral(value) == value.t = "string" \/ value.t = "number"

\* String(value) for any value
StringOf(v) ==
    CASE v.t = "number" -> NumberToString(v.n)
      [] v.t = "string" -> v.s
      [] v.t = "function" -> v.src
      [] v.t = "null" -> <<"n","u","l","l">>
      [] v.t = "object" -> <<"[","o","b","j","e","c","t"," ","O","b","j","e","c","t","]">>

\* lines 67-73: the state's variables, then its plain properties kebab-cased
RECURSIVE MergedStyles(_, _)
MergedStyles(acc, regularStyles) ==
    IF regularStyles = <<>> THEN acc
    ELSE MergedStyles(Put(acc, toKebabCase(regularStyles[1].k),
                          StringOf(regularStyles[1].v)),
                      Tail(regularStyles))

\* a state under its own name alone, whatever it is nested in
OwnName(chain) == chain[Len(chain)]

\* line 58: the name a state is stored and registered under
CompoundSelector(chain) == join(chain, <<":">>)

\* a registry entry that is the flat map of line 67-74: the state's
\* variables and its kebab-cased properties
FlatEntry(nestedResult) == MergedStyles(nestedResult.CSSVars, nestedResult.regularStyles)

\* a registry entry without the state's variables
NoEntry(nestedResult) == <<>>

\* line 76: what the registry records for a state
RegistryEntry(nestedResult) == nestedResult.CSSVars

\* line 62: the variable map handed down to a state branch
InheritedVars(CSSVars) == CSSVars

\* a lookup that falls back on the base state when the requested state or
\* its variable is missing
BaseFallback(stateVarsMap, fromState, varName) ==
    IF HasKey(stateVarsMap, fromState) /\ HasKey(Get(stateVarsMap, fromState), varName)
    THEN Get(Get(stateVarsMap, fromState), varName)
    ELSE IF HasKey(Get(stateVarsMap, BASE), varName)
    THEN Get(Get(stateVarsMap, BASE), varName)
    ELSE <<>>

\* lines 97, 107: the value a resolver that requests fromState is given
ValueFromState(stateVarsMap, fromState, varName) ==
    IF HasKey(stateVarsMap, fromState) /\ HasKey(Get(stateVarsMap, fromState), varName)
    THEN Get(Get(stateVarsMap, fromState), varName)
    ELSE <<>>

\* the level's own value before the inherited one
OwnFirst(context, CSSVars, varName) ==
    IF HasKey(CSSVars, varName) THEN Get(CSSVars, varName)
    ELSE IF ~context.root /\ HasKey(context.parentVars, varName)
    THEN Get(context.parentVars, varName)
    ELSE <<>>

\* line 119: the value a resolver that requests no state is given
DefaultValue(context, CSSVars, varName) ==
    IF ~context.root /\ HasKey(context.parentVars, varName)
    THEN Get(context.parentVars, varName)
    ELSE IF HasKey(CSSVars, varName) THEN Get(CSSVars, varName)
    ELSE <<>>

Warn(code, varName) == [e |-> "warn", code |-> code, varName |-> varName]

\* line 34: Object.entries(styles) throws a TypeError on null
EntriesThrows(value) == value.t = "null"

\* line 34: Object.entries(styles) of a value it does not throw on; a number
\* or a function has no entries of its own, a string has one for each of its
\* characters, under the character's index
Entries(value) ==
    CASE value.t = "object" -> value.e
      [] value.t = "string" ->
            [i \in 1..Len(value.s) |->
                [k |-> NumberToString(100 * (i - 1)), v |-> [t |-> "string", s |-> <<value.s[i]>>]]]
      [] OTHER -> <<>>

\* line 79: the states nested in a branch are copied into the map of the
\* level above, under their compound selectors
Surfaced(pseudoClasses, nestedResult) == Assign(pseudoClasses, nestedResult.pseudoClasses)

RECURSIVE transformStyles(_, _)
RECURSIVE Pass1(_, _, _)
RECURSIVE Pass2(_, _, _)

\* lines 34-82, one entry of the first loop
Pass1Entry(entry, context, st) ==
    LET key == entry.k
        value == entry.v
    IN  IF IsVariableKey(key) THEN
            IF IsLiteral(value)
            THEN [st EXCEPT
                    !.CSSVars = Put(@, VarName(key), StringOf(value)),
                    !.stateVarsMap =
                        IF context.root
                        THEN Put(@, BASE, Put(Get(@, BASE), VarName(key), StringOf(value)))
                        ELSE @,
                    !.log = @ \o <<[e |-> "store", varName |-> VarName(key),
                                    at |-> context.parentPseudoClasses]>>]
            ELSE st
        ELSE IF IsStateKey(key) THEN
            LET pseudoClass == toKebabCase(slice(key, 1))
                chain == context.parentPseudoClasses \o <<pseudoClass>>
                compoundSelector == CompoundSelector(chain)
                warned == (IF pseudoClass \in MOST_COMMON_PSEUDO_CLASSES_SET THEN <<>>
                           ELSE <<Warn("unsupported pseudo-class", pseudoClass)>>)
                          \o <<[e |-> "enter", at |-> chain]>>
                nested == [root |-> FALSE, parentVars |-> InheritedVars(st.CSSVars),
                           stateVarsMap |-> st.stateVarsMap,
                           parentPseudoClasses |-> chain]
                Merge(nestedResult) ==
                    LET mergedStyles == MergedStyles(nestedResult.CSSVars,
                                                     nestedResult.regularStyles)
                    IN  IF nestedResult.raised
                        THEN \* the exception of the nested call leaves line 61
                             [st EXCEPT !.raised = TRUE,
                                        !.stateVarsMap = nestedResult.stateVarsMap,
                                        !.log = @ \o warned \o nestedResult.log]
                        ELSE [st EXCEPT
                                !.stateVarsMap = Put(nestedResult.stateVarsMap,
                                                     compoundSelector,
                                                     RegistryEntry(nestedResult)),
                                !.pseudoClasses =
                                    Surfaced(Put(@, compoundSelector, mergedStyles),
                                             nestedResult),
                                !.log = @ \o warned \o nestedResult.log]
            IN  IF EntriesThrows(value)
                THEN \* line 34 of the nested call throws; nothing catches it
                     [st EXCEPT !.raised = TRUE, !.log = @ \o warned]
                ELSE With(nested, LAMBDA c : With(transformStyles(Entries(value), c), Merge))
        ELSE [st EXCEPT !.regularStyles = Put(@, key, value)]

Pass1(styles, context, st) ==
    IF styles = <<>> \/ st.raised THEN st
    ELSE With(Pass1Entry(styles[1], context, st),
              LAMBDA next : Pass1(Tail(styles), context, next))

\* lines 96-119: the value handed to a resolver
CurrentValue(context, st, fromState, varName) ==
    IF fromState # <<>>
    THEN ValueFromState(st.stateVarsMap, fromState, varName)
    ELSE DefaultValue(context, st.CSSVars, varName)

\* lines 99-105, 109-117 and 121-126: the devWarn calls of one resolver
Warnings(context, st, fromState, varName, currentValue) ==
    IF fromState # <<>>
    THEN IF ~HasKey(st.stateVarsMap, fromState)
         THEN <<Warn("state does not exist", varName)>>
         ELSE IF currentValue = <<>>
         THEN <<Warn("variable does not exist in state", varName)>>
         ELSE <<>>
    ELSE IF currentValue = <<>> /\ context.root
         THEN <<Warn("no base value", varName)>>
         ELSE <<>>

\* a catch that leaves the variable as it was
NotRecovered(CSSVars, varName) == CSSVars

\* line 137: the variable of a resolver that threw is set to ""
Recovered(CSSVars, varName) == Put(CSSVars, varName, <<>>)

\* lines 129-138: the resolver is called with currentValue
Resolved(value, varName, fromState, currentValue, context, st) ==
    LET invoked == [e |-> "resolve", varName |-> varName,
                    at |-> context.parentPseudoClasses,
                    currentValue |-> currentValue, fromState |-> fromState,
                    root |-> context.root, inherited |-> context.parentVars,
                    own |-> st.CSSVars,
                    returned |-> IF Throws(value) THEN Null
                                 ELSE StrV(Apply(value, currentValue))]
        said == Warnings(context, st, fromState, varName, currentValue) \o <<invoked>>
    IN  IF Throws(value)
        THEN \* lines 135-138
             [st EXCEPT !.CSSVars = Recovered(@, varName),
                        !.log = @ \o said
                                 \o <<[e |-> "console.warn", varName |-> varName]>>]
        ELSE \* lines 129-134
             [st EXCEPT
                !.CSSVars = Put(@, varName, Apply(value, currentValue)),
                !.stateVarsMap =
                    IF context.root
                    THEN Put(@, BASE, Put(Get(@, BASE), varName,
                                          Apply(value, currentValue)))
                    ELSE @,
                !.log = @ \o said]

\* lines 92-127: the requested state and the value found for it
Resolve(value, varName, fromState, context, st) ==
    Resolved(value, varName, fromState,
             CurrentValue(context, st, fromState, varName), context, st)

\* lines 85-140, one entry of the second loop
Pass2Entry(entry, context, st) ==
    IF ~(IsVariableKey(entry.k) /\ entry.v.t = "function") THEN st
    ELSE Resolve(entry.v, VarName(entry.k), extractFromParam(entry.v), context, st)

Pass2(styles, context, st) ==
    IF styles = <<>> THEN st
    ELSE With(Pass2Entry(styles[1], context, st),
              LAMBDA next : Pass2(Tail(styles), context, next))

\* lines 22-143, for the entries of styles; the result carries the registry
\* and a log of what the call did, in order (the literals stored, the state
\* branches entered, the resolvers called and the diagnostics) besides the
\* three parts the function returns, and raised tells that the call ended in an
\* exception instead of returning
transformStyles(styles, context) ==
    LET start == [CSSVars |-> <<>>, regularStyles |-> <<>>, pseudoClasses |-> <<>>,
                  stateVarsMap |-> IF context.root THEN Put(<<>>, BASE, <<>>)
                                   ELSE context.stateVarsMap,
                  log |-> <<>>, raised |-> FALSE]
    IN  With(Pass1(styles, context, start),
             LAMBDA st : IF st.raised THEN st ELSE Pass2(styles, context, st))

----------------------------------------------------------------------------
(* core/inject.ts *)

\* Object.entries(o).map(([key, value]) => `${key}: ${value};`).join(" ")
RECURSIVE Declarations(_)
Declarations(o) ==
    IF o = <<>> THEN <<>>
    ELSE <<o[1].k \o <<":", " ">> \o o[1].v \o <<";">>>> \o Declarations(Tail(o))

DeclarationText(o) == join(Declarations(o), <<" ">>)

\* lines 34-41: the variables, then each plain property kebab-cased
RECURSIVE BaseStyles(_, _)
BaseStyles(acc, regularStyles) ==
    IF regularStyles = <<>> THEN acc
    ELSE BaseStyles(Put(acc, toKebabCase(regularStyles[1].k), StringOf(regularStyles[1].v)),
                    Tail(regularStyles))

\* lines 51-59: one rule for each state whose declaration text is not empty
RECURSIVE PseudoRules(_, _)
PseudoRules(hash, pseudoClasses) ==
    IF pseudoClasses = <<>> THEN <<>>
    ELSE LET pseudoVars == DeclarationText(pseudoClasses[1].v)
             rule == <<".">> \o hash \o <<":">> \o pseudoClasses[1].k
                     \o <<" ", "{", " ">> \o pseudoVars \o <<" ", "}">>
         IN  (IF pseudoVars # <<>> THEN <<rule>> ELSE <<>>)
             \o PseudoRules(hash, Tail(pseudoClasses))

\* the state rules before the base rule
StatesFirst(hash, CSSVars, regularStyles, pseudoClasses) ==
    LET baseStyles == BaseStyles(CSSVars, regularStyles)
        baseRule == <<".">> \o hash \o <<" ", "{", " ">>
                    \o DeclarationText(baseStyles) \o <<" ", "}">>
    IN  PseudoRules(hash, pseudoClasses)
        \o (IF Len(baseStyles) > 0 THEN <<baseRule>> ELSE <<>>)

\* lines 32-59: the array CSSRules
CSSRules(hash, CSSVars, regularStyles, pseudoClasses) ==
    LET baseStyles == BaseStyles(CSSVars, regularStyles)
        baseRule == <<".">> \o hash \o <<" ", "{", " ">>
                    \o DeclarationText(baseStyles) \o <<" ", "}">>
    IN  (IF Len(baseStyles) > 0 THEN <<baseRule>> ELSE <<>>)
        \o PseudoRules(hash, pseudoClasses)

\* The pseudo-classes the document's CSS parser knows, among those the model
\* uses; a selector with any other pseudo-class does not parse
ParsedPseudoClasses ==
    { <<"h","o","v","e","r">>, <<"a","c","t","i","v","e">>,
      <<"d","i","s","a","b","l","e","d">>, <<"f","o","c","u","s">> }

\* the positions of character c in s
PositionsOf(s, c) == {i \in 1..Len(s) : s[i] = c}

Min(S) == CHOOSE i \in S : \A j \in S : i <= j

\* the part of s before the first c (all of s when there is none)
Before(s, c) ==
    IF PositionsOf(s, c) = {} THEN s ELSE SubSeq(s, 1, Min(PositionsOf(s, c)) - 1)

\* String.prototype.split(c), but for the part before the first c
SplitTail(s, c) ==
    LET at == PositionsOf(s, c)
    IN  { SubSeq(s, i + 1, Min({j \in at \cup {Len(s) + 1} : j > i}) - 1) : i \in at }

\* CSSStyleSheet.insertRule accepts a rule whose selector parses, and throws
\* a SyntaxError for any other: every pseudo-class of the selector, which is
\* the text before the first space, has to be one the parser knows
InsertRuleAccepts(rule) ==
    SplitTail(Before(rule, " "), ":") \subseteq ParsedPseudoClasses

\* lines 8, 90 and 104: document.getElementById(STYLE_TAG_ID) finds an element
tagExists == styleTags > 0

\* an element made at every call
AlwaysCreate == styleTags + 1

\* lines 7-19: the number of elements with the id after fetchStyleTag(),
\* which appends one to the head when getElementById finds none
fetchStyleTag == IF tagExists THEN styleTags ELSE styleTags + 1

\* The state a call is made in
Snapshot ==
    [tagExists |-> tagExists, styleTags |-> styleTags, textContent |-> textContent,
     cssRules |-> cssRules,
     STYLE_CACHE |-> STYLE_CACHE, rendered |-> rendered, sheetReady |-> sheetReady,
     failed |-> failed]

NoCall == [op |-> "none", args |-> <<>>, pre |-> <<>>, outcome |-> "", console |-> <<>>,
           result |-> <<>>]

Called(op, args, outcome, con, result) ==
    [op |-> op, args |-> args, pre |-> Snapshot, outcome |-> outcome, console |-> con,
     result |-> result]

\* lines 77-83: the rules the sheet takes, in order
RECURSIVE Inserted(_)
Inserted(rules) ==
    IF rules = <<>> THEN <<>>
    ELSE (IF InsertRuleAccepts(rules[1]) THEN <<rules[1]>> ELSE <<>>)
         \o Inserted(Tail(rules))

\* lines 80-82: one console.error for each rule insertRule throws on
RECURSIVE InsertErrors(_)
InsertErrors(rules) ==
    IF rules = <<>> THEN <<>>
    ELSE (IF InsertRuleAccepts(rules[1]) THEN <<>>
          ELSE <<[level |-> "error", msg |-> "Failed to insert CSS rule"]>>)
         \o InsertErrors(Tail(rules))

\* a cache check that finds no key
NeverInjected(hash) == FALSE

\* line 27: the cache check
AlreadyInjected(hash) == hash \in STYLE_CACHE

\* a cache that holds the last key alone
CacheReplace(cache, hash) == {hash}

\* a cache that takes no key
CacheKeep(cache, hash) == cache

\* line 86: STYLE_CACHE.add(hash)
CacheAdd(cache, hash) == cache \cup {hash}

\* a sheet taken to be there
AssumedSheet == TRUE

\* lines 70-72: styleTag.sheet is not null
HasSheet == sheetReady

injectCSS(hash, CSSVars, regularStyles, pseudoClasses) ==
    LET args == <<hash, CSSVars, regularStyles, pseudoClasses>>
        rules == CSSRules(hash, CSSVars, regularStyles, pseudoClasses)
        cached == /\ STYLE_CACHE' = CacheAdd(STYLE_CACHE, hash)
                  /\ rendered' = [k \in STYLE_CACHE \cup {hash} |->
                                     IF k = hash THEN rules ELSE rendered[k]]
    IN  /\ prev' = call
        /\ UNCHANGED <<IS_DEV, warningsEnabled, sheetReady>>
        /\ IF AlreadyInjected(hash)
           THEN \* lines 27-29
                /\ call' = Called("injectCSS", args, "skipped", <<>>, <<>>)
                /\ failed' = failed \ {hash}
                /\ UNCHANGED <<styleTags, textContent, cssRules, STYLE_CACHE, rendered>>
           ELSE \* line 31: fetchStyleTag() makes the element when there is none
                /\ styleTags' = fetchStyleTag
                /\ IF Len(rules) = 0
                   THEN \* lines 61-63
                        /\ call' = Called("injectCSS", args, "nothing", <<>>, <<>>)
                        /\ failed' = failed \ {hash}
                        /\ UNCHANGED <<textContent, cssRules, STYLE_CACHE, rendered>>
                   ELSE IF IS_DEV
                   THEN \* lines 65-68
                        /\ textContent' = textContent \o join(rules, <<"\n">>) \o <<"\n">>
                        /\ call' = Called("injectCSS", args, "injected", <<>>, <<>>)
                        /\ cached
                        /\ failed' = failed \ {hash}
                        /\ UNCHANGED cssRules
                   ELSE IF ~HasSheet
                   THEN \* lines 70-75
                        /\ call' = Called("injectCSS", args, "no sheet",
                                <<[level |-> "error", msg |-> "CSSStyleSheet not available."]>>,
                                <<>>)
                        /\ failed' = failed \cup {hash}
                        /\ UNCHANGED <<textContent, cssRules, STYLE_CACHE, rendered>>
                   ELSE \* lines 77-86
                        /\ cssRules' = cssRules \o Inserted(rules)
                        /\ call' = Called("injectCSS", args, "injected",
                                          InsertErrors(rules), <<>>)
                        /\ cached
                        /\ failed' = failed \ {hash}
                        /\ UNCHANGED textContent

\* a cache left as it is
KeptCache == STYLE_CACHE

\* line 96: STYLE_CACHE.clear()
ClearedCache == {}

\* lines 89-97: the element getElementById finds leaves the document, with
\* its text and its sheet
removeStyles ==
    /\ prev' = call
    /\ call' = Called("removeStyles", <<>>, "", <<>>, <<>>)
    /\ styleTags' = IF tagExists THEN styleTags - 1 ELSE styleTags
    /\ textContent' = <<>>
    /\ cssRules' = <<>>
    /\ STYLE_CACHE' = ClearedCache
    /\ rendered' = [k \in ClearedCache |-> rendered[k]]
    /\ UNCHANGED <<IS_DEV, warningsEnabled, sheetReady, failed>>

\* lines 99-101
getCacheSize ==
    /\ prev' = call
    /\ call' = Called("getCacheSize", <<>>, "", <<>>, Cardinality(STYLE_CACHE))
    /\ UNCHANGED <<IS_DEV, warningsEnabled, sheetReady, styleTags, textContent, cssRules, STYLE_CACHE,
                   rendered, failed>>

\* lines 103-120: the value getInjectedCSS() returns
InjectedCSS ==
    IF ~tagExists THEN <<>>
    ELSE IF IS_DEV THEN textContent
    ELSE IF HasSheet THEN join(cssRules, <<"\n">>)
    ELSE <<>>

getInjectedCSS ==
    /\ prev' = call
    /\ call' = Called("getInjectedCSS", <<>>, "", <<>>, InjectedCSS)
    /\ UNCHANGED <<IS_DEV, warningsEnabled, sheetReady, styleTags, textContent, cssRules, STYLE_CACHE,
                   rendered, failed>>

\* the lines of a text that ends each line with "\n"
Lines(text) ==
    LET at == PositionsOf(text, "\n")
        nth(i) == CHOOSE p \in at : Cardinality({q \in at : q < p}) = i - 1
    IN  [i \in 1..Cardinality(at) |->
            SubSeq(text, IF i = 1 THEN 1 ELSE nth(i - 1) + 1, nth(i) - 1)]

\* the rules in the container: the lines of the element's text in text
\* mode, the sheet's rule list in rule-object mode
ContainerRules == IF IS_DEV THEN Lines(textContent) ELSE cssRules

Selector(rule) == Before(rule, " ")

\* The document starts to give style elements a live sheet; it does not stop
SheetBecomesReady ==
    /\ ~sheetReady
    /\ sheetReady' = TRUE
    /\ prev' = call
    /\ call' = Called("sheet ready", <<>>, "", <<>>, <<>>)
    /\ UNCHANGED <<IS_DEV, warningsEnabled, styleTags, textContent, cssRules, STYLE_CACHE, rendered,
                   failed>>

----------------------------------------------------------------------------
(* The descriptions the model runs the engine on *)

SCALE == <<"_","_","s","c","a","l","e">>
\* another key of the variable --scale
SCALE_CAPITAL == <<"_","_","S","c","a","l","e">>
OPACITY == <<"_","_","o","p","a","c","i","t","y">>
HOVER == <<"_","h","o","v","e","r">>
ACTIVE == <<"_","a","c","t","i","v","e">>
DISABLED == <<"_","d","i","s","a","b","l","e","d">>
FOCUS == <<"_","f","o","c","u","s">>
GLOW == <<"_","g","l","o","w">>
COLOR == <<"c","o","l","o","r">>
FONT_SIZE == <<"f","o","n","t","S","i","z","e">>

\* (cv) => Number(cv) * 0.9, with and without a requested state
TimesNoFrom == Fn(<<"c","=",">","c","*","0",".","9">>, "times0.9")
TimesFromHover == Fn(<<"(","c",",","f","r","o","m","=","\"","h","o","v","e","r","\"",")","=",">","c","*","0",".","9">>, "times0.9")
TimesFromActive == Fn(<<"(","c",",","f","r","o","m","=","\"","a","c","t","i","v","e","\"",")","=",">","c","*","0",".","9">>, "times0.9")
TimesFromBase == Fn(<<"(","c",",","f","r","o","m","=","\"","b","a","s","e","\"",")","=",">","c","*","0",".","9">>, "times0.9")
\* (cv) => "(" + cv + ")"
ParenNoFrom == Fn(<<"c","=",">","\"","(","\"","+","c","+","\"",")","\"">>, "paren")
ParenFromHover == Fn(<<"(","c",","," ","f","r","o","m"," ","="," ","'","h","o","v","e","r","'",")","=",">","\"","(","\"","+","c","+","\"",")","\"">>, "paren")
ParenFromNested == Fn(<<"(","c",",","f","r","o","m","=","\"","h","o","v","e","r",":","d","i","s","a","b","l","e","d","\"",")","=",">","\"","(","\"","+","c","+","\"",")","\"">>, "paren")
\* a resolver that throws
Thrower == Fn(<<"c","=",">","{","t","h","r","o","w"," ","0","}">>, "throw")

E(key, value) == [k |-> key, v |-> value]

RED == StrV(<<"r","e","d">>)

\* {}
Empty == <<>>
\* { __scale: 1, _hover: { __scale: 1.2 } }
Plain == <<E(SCALE, Num(100)), E(HOVER, Obj(<<E(SCALE, Num(120))>>))>>
\* { color: "red", _glow: { __scale: 1 } }: "glow" is no pseudo-class
Glowing == <<E(COLOR, RED), E(GLOW, Obj(<<E(SCALE, Num(100))>>))>>
\* { _glow: { color: "red" } }
OnlyGlow == <<E(GLOW, Obj(<<E(COLOR, RED)>>))>>

\* { color: "red", _hover: {}, _active: { __scale: 1 } }: a state without
\* declarations
Hollow ==
    <<E(COLOR, RED), E(HOVER, Obj(<<>>)), E(ACTIVE, Obj(<<E(SCALE, Num(100))>>))>>

\* The arguments of the direct injectCSS calls: any of the keys with the
\* transformer's output for any of the descriptions
InjectKeys == {createStableHash(Obj(d)) : d \in {Plain, Glowing}}
InjectContents ==
    {transformStyles(d, RootContext) : d \in {Empty, Plain, Glowing, OnlyGlow, Hollow}}

----------------------------------------------------------------------------
(* The injector as a state machine: any sequence of calls of its exported
   functions, in text mode or in rule-object mode *)

NoRun == <<>>

Init ==
    /\ IS_DEV \in BOOLEAN
    /\ warningsEnabled = TRUE
    /\ sheetReady \in BOOLEAN
    /\ styleTags = 0
    /\ textContent = <<>>
    /\ cssRules = <<>>
    /\ STYLE_CACHE = {}
    /\ call = NoCall
    /\ prev = NoCall
    /\ rendered = <<>>
    /\ failed = {}
    /\ prevHashRef = <<>>
    /\ cachedResultRef = Null
    /\ renders = <<>>
    /\ A = NoRun /\ B = NoRun /\ pc = "idle" /\ outA = NoRun /\ outB = NoRun

InjectCSS ==
    \E hash \in InjectKeys, content \in InjectContents :
        /\ injectCSS(hash, content.CSSVars, content.regularStyles, content.pseudoClasses)
        /\ UNCHANGED <<runVars, hookVars>>

RemoveStyles == removeStyles /\ UNCHANGED <<runVars, hookVars>>

GetCacheSize == getCacheSize /\ UNCHANGED <<runVars, hookVars>>

GetInjectedCSS == getInjectedCSS /\ UNCHANGED <<runVars, hookVars>>

SheetReady == SheetBecomesReady /\ UNCHANGED <<runVars, hookVars>>

Next == InjectCSS \/ RemoveStyles \/ GetCacheSize \/ GetInjectedCSS \/ SheetReady

Spec == Init /\ [][Next]_vars

----------------------------------------------------------------------------
(* utils/dev-warnings.ts *)

\* lines 5-7
disableWarnings ==
    /\ warningsEnabled' = FALSE
    /\ UNCHANGED <<IS_DEV, sheetReady, styleTags, textContent, cssRules, STYLE_CACHE,
                   call, prev, rendered, failed>>

\* lines 9-11
enableWarnings ==
    /\ warningsEnabled' = TRUE
    /\ UNCHANGED <<IS_DEV, sheetReady, styleTags, textContent, cssRules, STYLE_CACHE,
                   call, prev, rendered, failed>>

\* lines 13-17: what a devWarn call writes to the console
devWarn(message) ==
    IF ~IS_DEV \/ ~warningsEnabled THEN <<>>
    ELSE <<[level |-> "warn", msg |-> message]>>

\* a console that gets the report of a resolver's exception through devWarn
GatedConsoleOf(log) ==
    FlatMap(LAMBDA i : CASE log[i].e = "warn" -> devWarn(log[i].code)
                         [] log[i].e = "console.warn" -> devWarn("Error resolving variable")
                         [] OTHER -> <<>>,
            1, Len(log))

\* what the events of a transformStyles call write to the console: its
\* devWarn calls, and the console.warn of transform.ts line 136
ConsoleOf(log) ==
    FlatMap(LAMBDA i : CASE log[i].e = "warn" -> devWarn(log[i].code)
                         [] log[i].e = "console.warn" ->
                                <<[level |-> "warn", msg |-> "Error resolving variable"]>>
                         [] OTHER -> <<>>,
            1, Len(log))

----------------------------------------------------------------------------
(* The hook on two key-order variants of one description: useVarwolf(A) in a
   new component, a reset, and useVarwolf(B) in another new component *)

\* the orders of n entries
Orders(n) == {p \in [1..n -> 1..n] : \A i, j \in 1..n : p[i] = p[j] => i = j}

\* The descriptions that are deeply equal to one under key-order-independent
\* comparison: its entries in any order, each nested object in any order of
\* its own
RECURSIVE Variants(_)
RECURSIVE Arranged(_, _, _)
Arranged(entries, p, i) ==
    IF i > Len(entries) THEN {<<>>}
    ELSE LET entry == entries[p[i]]
             values == IF entry.v.t = "object"
                       THEN {Obj(e) : e \in Variants(entry.v.e)}
                       ELSE {entry.v}
         IN  {<<E(entry.k, v)>> \o rest : v \in values, rest \in Arranged(entries, p, i + 1)}

Variants(entries) == UNION {Arranged(entries, p, 1) : p \in Orders(Len(entries))}

HALF_OPACITY == Num(50)

\* { __scale: 1, _hover: { __scale: 1.2 }, _active: { __scale: (cv, from="hover") => cv * 0.9 } }
CrossState ==
    <<E(SCALE, Num(100)), E(HOVER, Obj(<<E(SCALE, Num(120))>>)),
      E(ACTIVE, Obj(<<E(SCALE, TimesFromHover)>>))>>
\* { __scale: 1, __opacity: 0.5, color: "red" }
BaseOnly == <<E(SCALE, Num(100)), E(OPACITY, HALF_OPACITY), E(COLOR, RED)>>
\* { __scale: 1, _hover: { __scale: (cv) => "(" + cv + ")" } }
Inherit == <<E(SCALE, Num(100)), E(HOVER, Obj(<<E(SCALE, ParenNoFrom)>>))>>
\* { __scale: 1, _hover: { _disabled: { __scale: (cv) => "(" + cv + ")" } } }
InheritDeep ==
    <<E(SCALE, Num(100)),
      E(HOVER, Obj(<<E(DISABLED, Obj(<<E(SCALE, ParenNoFrom)>>))>>))>>
\* { _hover: { _disabled: { __scale: 1.2, color: "red" } },
\*   _active: { __scale: (cv, from="hover:disabled") => "(" + cv + ")" } }
CrossNested ==
    <<E(HOVER, Obj(<<E(DISABLED, Obj(<<E(SCALE, Num(120)), E(COLOR, RED)>>))>>)),
      E(ACTIVE, Obj(<<E(SCALE, ParenFromNested)>>))>>
\* { __scale: 1, _hover: { __scale: (cv) => "(" + cv + ")" },
\*   _active: { __scale: (cv, from = 'hover') => "(" + cv + ")" } }
CrossResolved ==
    <<E(SCALE, Num(100)), E(HOVER, Obj(<<E(SCALE, ParenNoFrom)>>)),
      E(ACTIVE, Obj(<<E(SCALE, ParenFromHover)>>))>>

\* { _hover: { color: "red", _focus: { __scale: 1, _active: { color: "red" } } } }
TripleNested ==
    <<E(HOVER, Obj(<<E(COLOR, RED),
                     E(FOCUS, Obj(<<E(SCALE, Num(100)),
                                    E(ACTIVE, Obj(<<E(COLOR, RED)>>))>>))>>))>>

\* { __scale: 1, __opacity: (cv) => { throw 0 },
\*   _hover: { __opacity: (cv) => "(" + cv + ")", __scale: (cv) => { throw 0 } } }
Failing ==
    <<E(SCALE, Num(100)), E(OPACITY, Thrower),
      E(HOVER, Obj(<<E(OPACITY, ParenNoFrom), E(SCALE, Thrower)>>))>>

\* { __scale: 1, _hover: null }
NullState == <<E(SCALE, Num(100)), E(HOVER, Null)>>
\* { __scale: { color: "red" }, _hover: 1, color: null }: a variable that is
\* neither literal nor function, a state that is no object, a property that
\* is no string
Mistyped == <<E(SCALE, Obj(<<E(COLOR, RED)>>)), E(HOVER, Num(100)), E(COLOR, Null)>>

\* { __scale: 1, __Scale: (cv) => "(" + cv + ")",
\*   _hover: { __scale: 1.2, __Scale: (cv) => "(" + cv + ")" } }: at both
\* levels a literal and a resolver of the one variable --scale
Overwrite ==
    <<E(SCALE, Num(100)), E(SCALE_CAPITAL, ParenNoFrom),
      E(HOVER, Obj(<<E(SCALE, Num(120)), E(SCALE_CAPITAL, ParenNoFrom)>>))>>

\* { _hover: { color: "red" },
\*   _active: { __scale: (cv, from = 'hover') => "(" + cv + ")" } }: the state
\* requested has no value for the variable
MissingInState ==
    <<E(HOVER, Obj(<<E(COLOR, RED)>>)), E(ACTIVE, Obj(<<E(SCALE, ParenFromHover)>>))>>

\* { __scale: 1, _active: { __scale: (cv, from = 'hover') => "(" + cv + ")" } }:
\* the state requested is declared nowhere
Undeclared ==
    <<E(SCALE, Num(100)), E(ACTIVE, Obj(<<E(SCALE, ParenFromHover)>>))>>
\* { _hover: { __scale: 1.2, __Scale: (cv, from = 'hover') => "(" + cv + ")" } }:
\* the state requested is the one the resolver is in
SelfRequest ==
    <<E(HOVER, Obj(<<E(SCALE, Num(120)), E(SCALE_CAPITAL, ParenFromHover)>>))>>

\* { __scale: (cv, from = 'hover') => "(" + cv + ")",
\*   _hover: { __scale: 1, __Scale: (cv) => "(" + cv + ")" } }: a base
\* resolver that requests a state whose value is computed by a resolver
RootRequest ==
    <<E(SCALE, ParenFromHover),
      E(HOVER, Obj(<<E(SCALE, Num(100)), E(SCALE_CAPITAL, ParenNoFrom)>>))>>
\* { __scale: (cv, from="hover:disabled") => "(" + cv + ")",
\*   _hover: { _disabled: { __scale: 1.2 } } }: a base resolver that requests
\* a nested state
RootRequestNested ==
    <<E(SCALE, ParenFromNested),
      E(HOVER, Obj(<<E(DISABLED, Obj(<<E(SCALE, Num(120))>>))>>))>>

DASHED_SCALE == <<"-","-","s","c","a","l","e">>
\* { _hover: { "--scale": 1.2 },
\*   _active: { __scale: (cv, from = 'hover') => "(" + cv + ")" } }: the state
\* requested declares --scale as a plain property
DashedProperty ==
    <<E(HOVER, Obj(<<E(DASHED_SCALE, Num(120))>>)),
      E(ACTIVE, Obj(<<E(SCALE, ParenFromHover)>>))>>

BaseDescriptions ==
    {CrossState, BaseOnly, Inherit, InheritDeep, CrossNested, CrossResolved,
     TripleNested, Glowing, Failing, NullState, Mistyped, Overwrite, MissingInState,
     Undeclared, SelfRequest, RootRequest, RootRequestNested, DashedProperty}

Descriptions == UNION {Variants(d) : d \in BaseDescriptions}

\* hooks/use-varwolf.ts lines 107 and 118, for each description: the key and
\* the transformer's output, with the serialization the key is the hash of,
\* and the description as the calls leave it.  transformStyles and injectCSS
\* assign to the objects they create only (transform.ts lines 23-25 and 67,
\* inject.ts lines 32-34), and they create none from the description: only
\* the serializer can leave it changed
Computed ==
    [styles \in Descriptions |->
        [stableString |-> toStableString(Obj(styles)),
         className |-> createStableHash(Obj(styles)),
         result |-> transformStyles(styles, RootContext),
         after |-> AfterStableString(Obj(styles)).e]]

\* a test that finds every render changed
AlwaysProcess(styleHash) == TRUE

\* line 116
MustProcess(styleHash) == prevHashRef # styleHash \/ cachedResultRef = Null

\* lines 124-126: a new result object; id tells the objects apart
NewResult(styleHash) == [t |-> "object", id |-> Len(renders) + 1, className |-> styleHash]

\* what a render did: whether it called transformStyles and injectCSS, and
\* the object it returned (none when it ended in an exception)
Rendered(styleHash, transformed, injected, returned) ==
    [key |-> styleHash, transformed |-> transformed, injected |-> injected,
     returned |-> returned]

\* hooks/use-varwolf.ts lines 105-134, a render of the mounted component, with
\* the key and the transformer's output computed
useVarwolf(computed) ==
    IF MustProcess(computed.className)
    THEN IF computed.result.raised
         THEN \* the exception of line 118 leaves the hook: lines 121-129 are
              \* not reached
              /\ prev' = call
              /\ call' = Called("useVarwolf", <<computed.className>>, "raised", <<>>, <<>>)
              /\ renders' = Append(renders, Rendered(computed.className, TRUE, FALSE, Null))
              /\ UNCHANGED <<IS_DEV, warningsEnabled, sheetReady, styleTags, textContent,
                             cssRules, STYLE_CACHE, rendered, failed, prevHashRef,
                             cachedResultRef>>
         ELSE /\ injectCSS(computed.className, computed.result.CSSVars,
                           computed.result.regularStyles, computed.result.pseudoClasses)
              /\ cachedResultRef' = NewResult(computed.className)
              /\ prevHashRef' = computed.className
              /\ renders' = Append(renders, Rendered(computed.className, TRUE, TRUE,
                                                     NewResult(computed.className)))
    ELSE \* line 133 only
         /\ renders' = Append(renders, Rendered(computed.className, FALSE, FALSE,
                                                cachedResultRef))
         /\ UNCHANGED <<IS_DEV, warningsEnabled, sheetReady, styleTags, textContent,
                        cssRules, STYLE_CACHE, call, prev, rendered, failed, prevHashRef,
                        cachedResultRef>>

\* what a run leaves: the serialization, the key, the transformer's output
\* and the CSS text in the container after the injection
Output(computed) ==
    [stableString |-> computed.stableString,
     className |-> computed.className,
     result |-> computed.result,
     outcome |-> call'.outcome,
     warningsEnabled |-> warningsEnabled,
     console |-> ConsoleOf(computed.result.log) \o call'.console,
     rules |-> ContainerRules',
     css |-> InjectedCSS']

Render(computed) ==
    /\ useVarwolf(computed)
    /\ IF pc = "A" THEN outA' = Output(computed) /\ A' = computed.after
                        /\ UNCHANGED <<B, outB>>
                   ELSE outB' = Output(computed) /\ B' = computed.after
                        /\ UNCHANGED <<A, outA>>

InitT ==
    /\ IS_DEV \in BOOLEAN
    /\ warningsEnabled = TRUE
    /\ sheetReady \in BOOLEAN
    /\ styleTags = 0
    /\ textContent = <<>>
    /\ cssRules = <<>>
    /\ STYLE_CACHE = {}
    /\ call = NoCall
    /\ prev = NoCall
    /\ rendered = <<>>
    /\ failed = {}
    /\ prevHashRef = <<>>
    /\ cachedResultRef = Null
    /\ renders = <<>>
    /\ A \in Descriptions
    /\ B \in Variants(A)
    /\ pc = "A"
    /\ outA = NoRun /\ outB = NoRun

RenderA ==
    /\ pc = "A"
    /\ Render(Computed[A])
    /\ pc' = "reset"

\* the reset, and a new component for the second description
Reset ==
    /\ pc = "reset"
    /\ removeStyles
    /\ prevHashRef' = <<>>
    /\ cachedResultRef' = Null
    /\ renders' = <<>>
    /\ pc' = "B"
    /\ UNCHANGED <<A, B, outA, outB>>

RenderB ==
    /\ pc = "B"
    /\ Render(Computed[B])
    /\ pc' = "done"

\* the toggle is called at any time before the last render
DisableWarnings == pc # "done" /\ disableWarnings /\ UNCHANGED <<runVars, hookVars>>

EnableWarnings == pc # "done" /\ enableWarnings /\ UNCHANGED <<runVars, hookVars>>

NextT == RenderA \/ Reset \/ RenderB \/ DisableWarnings \/ EnableWarnings

SpecT == InitT /\ [][NextT]_vars

----------------------------------------------------------------------------
(* The hook in one component that is rendered again and again, with any of
   a few descriptions, while the container may be reset and the document
   may start to give the element a sheet *)

MaxRenders == 4

\* { __opacity: 0.5, color: "red", __scale: 1 }: BaseOnly with its keys in
\* another order
BaseOnlyReordered == <<E(OPACITY, HALF_OPACITY), E(COLOR, RED), E(SCALE, Num(100))>>

HookDescriptions == {BaseOnly, BaseOnlyReordered, Inherit, NullState}

\* a render that ended in an exception unmounts the component
Mounted == IF renders = <<>> THEN TRUE ELSE renders[Len(renders)].returned # Null

Rerender ==
    /\ Len(renders) < MaxRenders
    /\ Mounted
    /\ \E styles \in HookDescriptions : useVarwolf(Computed[styles])
    /\ UNCHANGED runVars

NextH == Rerender \/ RemoveStyles \/ SheetReady

SpecH == Init /\ [][NextH]_vars

----------------------------------------------------------------------------
(* Properties of the injector *)

\* the rule array the last injectCSS call built from its arguments
CallRules == CSSRules(call.args[1], call.args[2], call.args[3], call.args[4])

ContainerAsBefore ==
    /\ textContent = call.pre.textContent
    /\ cssRules = call.pre.cssRules

NoSheetError == <<[level |-> "error", msg |-> "CSSStyleSheet not available."]>>

\* C1: an injectCSS call whose key is in the cache when it is made changes
\* nothing: the text, the rule list and the cache are as before the call,
\* whatever the other arguments and in either mode
C1_NoOpWhenCached ==
    (call.op = "injectCSS" /\ call.args[1] \in call.pre.STYLE_CACHE)
        => /\ ContainerAsBefore
           /\ STYLE_CACHE = call.pre.STYLE_CACHE
           /\ tagExists = call.pre.tagExists
           /\ call.console = <<>>

\* a call with a cached key whose other arguments would have built rules
\* that the key's first injection did not build
C1_Witness ==
    /\ call.op = "injectCSS"
    /\ call.args[1] \in call.pre.STYLE_CACHE
    /\ Len(CallRules) > 0
    /\ CallRules # call.pre.rendered[call.args[1]]

\* C2: every key in the cache has every rule it rendered (its base rule and
\* each state rule that is not empty) in the container
C2_CachedKeysHaveTheirRules ==
    \A k \in STYLE_CACHE :
        \A i \in 1..Len(rendered[k]) :
            \E j \in 1..Len(ContainerRules) : ContainerRules[j] = rendered[k][i]

\* C3: no selector of a key has two rules in the container, so no base rule
\* and no state rule of a key is in it twice
C3_AtMostOnce ==
    \A i, j \in 1..Len(ContainerRules) :
        Selector(ContainerRules[i]) = Selector(ContainerRules[j]) => i = j

\* a key with two rules in the container has been injected a second time
C3_Witness ==
    /\ call.op = "injectCSS"
    /\ call.outcome = "skipped"
    /\ Len(call.pre.rendered[call.args[1]]) >= 2
    /\ \A i \in 1..2 : \E j \in 1..Len(ContainerRules) :
            ContainerRules[j] = call.pre.rendered[call.args[1]][i]

\* C4: the second of two successive injectCSS calls with the same key and
\* the same content leaves the container as the first left it: the same
\* CSS text and the same number of rules
C4_SecondCallChangesNothing ==
    (call.op = "injectCSS" /\ prev.op = "injectCSS" /\ call.args = prev.args)
        => /\ ContainerAsBefore
           /\ Len(ContainerRules) = Len(IF IS_DEV THEN Lines(call.pre.textContent)
                                        ELSE call.pre.cssRules)

\* the first call injected rules and the second one repeated it
C4_Witness ==
    /\ call.op = "injectCSS" /\ prev.op = "injectCSS" /\ call.args = prev.args
    /\ prev.outcome = "injected"
    /\ Len(ContainerRules) > 0

\* C5 as stated: in rule-object mode every injectCSS call made while the
\* element has no live rule list reports the error, inserts nothing and
\* leaves the cache alone
C5_AsStated ==
    (call.op = "injectCSS" /\ ~IS_DEV /\ ~call.pre.sheetReady)
        => /\ call.console = NoSheetError
           /\ ContainerAsBefore
           /\ STYLE_CACHE = call.pre.STYLE_CACHE

\* C5: in rule-object mode an injectCSS call that has at least one rule to
\* insert and finds no live rule list reports the error, inserts nothing
\* and leaves the cache alone; and the next call with that key, if it is
\* made when the rule list is there, is not skipped: it appends the rules it
\* built that the sheet accepts
C5_AbortWithoutCaching ==
    /\ (call.op = "injectCSS" /\ ~IS_DEV /\ ~call.pre.sheetReady /\ Len(CallRules) > 0)
            => /\ call.console = NoSheetError
               /\ call.outcome = "no sheet"
               /\ ContainerAsBefore
               /\ STYLE_CACHE = call.pre.STYLE_CACHE
    /\ (call.op = "injectCSS" /\ call.args[1] \in call.pre.failed /\ call.pre.sheetReady)
            => /\ call.outcome # "skipped"
               /\ cssRules = call.pre.cssRules \o Inserted(CallRules)
               /\ Len(CallRules) > 0 => call.args[1] \in STYLE_CACHE

\* a key that found no sheet is injected once the sheet is there
C5_Witness ==
    /\ call.op = "injectCSS"
    /\ call.args[1] \in call.pre.failed
    /\ call.pre.sheetReady
    /\ Len(cssRules) > Len(call.pre.cssRules)

\* C6: after removeStyles() getInjectedCSS() returns "" and the cache is
\* empty, and an injectCSS call that follows it with a key that was cached
\* before the reset is not skipped: the container then holds what that
\* call's first injection puts into an empty one
C6_ResetThenReinject ==
    /\ call.op = "removeStyles"
            => /\ InjectedCSS = <<>>
               /\ Cardinality(STYLE_CACHE) = 0
    /\ (call.op = "getInjectedCSS" /\ prev.op = "removeStyles") => call.result = <<>>
    /\ (call.op = "getCacheSize" /\ prev.op = "removeStyles") => call.result = 0
    /\ (call.op = "injectCSS" /\ prev.op = "removeStyles"
            /\ call.args[1] \in prev.pre.STYLE_CACHE)
            => /\ call.outcome # "skipped"
               /\ IF IS_DEV
                  THEN textContent = join(CallRules, <<"\n">>)
                                     \o (IF CallRules = <<>> THEN <<>> ELSE <<"\n">>)
                  ELSE cssRules = Inserted(CallRules)
               /\ Len(CallRules) > 0 => call.args[1] \in STYLE_CACHE

\* a key cached before the reset is injected again after it
C6_Witness ==
    /\ call.op = "injectCSS" /\ prev.op = "removeStyles"
    /\ call.args[1] \in prev.pre.STYLE_CACHE
    /\ CallRules = prev.pre.rendered[call.args[1]]
    /\ Len(ContainerRules) > 0

----------------------------------------------------------------------------
(* Properties of the hasher and the transformer *)

\* the two runs: each description with what its run left
Runs == {[styles |-> A, out |-> outA], [styles |-> B, out |-> outB]}

StateName(key) == toKebabCase(slice(key, 1))

\* the entries of the state branch that the chain of state names leads to
RECURSIVE LevelAt(_, _)
LevelAt(styles, chain) ==
    IF chain = <<>> THEN styles
    ELSE LET i == CHOOSE i \in 1..Len(styles) :
                    IsStateKey(styles[i].k) /\ StateName(styles[i].k) = chain[1]
         IN  LevelAt(Entries(styles[i].v), Tail(chain))

\* the chains of state names of the branches of a description
RECURSIVE Chains(_)
Chains(styles) ==
    UNION { {<<StateName(styles[i].k)>>}
            \cup {<<StateName(styles[i].k)>> \o c : c \in Chains(Entries(styles[i].v))} :
            i \in {j \in 1..Len(styles) : IsStateKey(styles[j].k)} }

\* the level of the chain and every level above it
LevelsAbove(styles, chain) == {LevelAt(styles, SubSeq(chain, 1, n)) : n \in 0..Len(chain)}

\* the literals declared for a variable at the level of the chain and at
\* every level above it
DeclaredLiterals(styles, chain, varName) ==
    UNION { {StringOf(level[i].v) :
                i \in {j \in 1..Len(level) : /\ IsVariableKey(level[j].k)
                                             /\ VarName(level[j].k) = varName
                                             /\ IsLiteral(level[j].v)}} :
            level \in LevelsAbove(styles, chain) }

Position(level, name) ==
    CHOOSE i \in 1..Len(level) : IsStateKey(level[i].k) /\ StateName(level[i].k) = name

\* branch a and branch b lie apart, and a's is written before b's at the
\* level where their chains part
Earlier(styles, a, b) ==
    \E n \in 1..Len(a) :
        /\ n <= Len(b)
        /\ SubSeq(a, 1, n - 1) = SubSeq(b, 1, n - 1)
        /\ a[n] # b[n]
        /\ Position(LevelAt(styles, SubSeq(a, 1, n - 1)), a[n])
            < Position(LevelAt(styles, SubSeq(a, 1, n - 1)), b[n])

\* the level of the chain declares the variable, as a literal or a resolver
Declares(styles, chain, varName) ==
    \E i \in 1..Len(LevelAt(styles, chain)) :
        /\ IsVariableKey(LevelAt(styles, chain)[i].k)
        /\ VarName(LevelAt(styles, chain)[i].k) = varName
        /\ \/ IsLiteral(LevelAt(styles, chain)[i].v)
           \/ LevelAt(styles, chain)[i].v.t = "function"

\* the resolver calls of a run
ResolveEvents(out) == {out.result.log[i] : i \in {j \in 1..Len(out.result.log) :
                                                   out.result.log[j].e = "resolve"}}

\* C7: two descriptions that differ only in the order of their keys, at any
\* depth, have the same serialization and the same key, and the key is
\* "vw-" followed by the hash of the serialization
C7_OrderIndependentKey ==
    pc = "done"
        => /\ outA.stableString = outB.stableString
           /\ outA.className = outB.className
           /\ outA.className = <<"v", "w", "-">> \o fnv1a(outA.stableString)

\* two descriptions whose first difference is in the key order of a nested
\* object
C7_Witness ==
    /\ pc = "done"
    /\ A = CrossNested
    /\ B # A /\ B[1].k = A[1].k /\ B[2] = A[2]

\* C8: two descriptions that differ only in the order of their keys give the
\* same CSS text when each is transformed and injected into an empty
\* container
C8_SameText ==
    pc = "done" => outA.css = outB.css

\* C9: a resolver that requests no state receives a literal declared for its
\* variable at its own level or at a level above, wherever one is declared
C9_SeesDeclaredLiteral ==
    pc = "done"
        => \A run \in Runs : \A ev \in ResolveEvents(run.out) :
                (ev.fromState = <<>>
                    /\ DeclaredLiterals(run.styles, ev.at, ev.varName) # {})
                    => ev.currentValue \in DeclaredLiterals(run.styles, ev.at, ev.varName)

\* C10: a resolver in branch b that requests a state whose branch lies apart
\* from b and is written before it, and that declares the variable,
\* receives that state's resolved value; and the description of the example
\* resolves the variable of its active state to 1.08
C10_CrossStateValue ==
    pc = "done"
        => /\ \A run \in Runs : \A ev \in ResolveEvents(run.out) :
                \A a \in Chains(run.styles) :
                    (/\ ev.fromState = join(a, <<":">>)
                     /\ Earlier(run.styles, a, ev.at)
                     /\ Declares(run.styles, a, ev.varName))
                    => ev.currentValue =
                         Get(Get(run.out.result.pseudoClasses, ev.fromState), ev.varName)
           /\ A = CrossState
                => Get(Get(outA.result.pseudoClasses, <<"a","c","t","i","v","e">>),
                       <<"-","-","s","c","a","l","e">>) = <<"1",".","0","8">>

\* the resolver of the example's active state is handed 1.2, the value of
\* its hover state, where the base value is 1
C10_Witness ==
    /\ pc = "done"
    /\ A = CrossState
    /\ \E ev \in ResolveEvents(outA) :
            /\ ev.at = <<<<"a","c","t","i","v","e">>>>
            /\ ev.fromState = <<"h","o","v","e","r">>
            /\ ev.currentValue = <<"1",".","2">>
    /\ Get(outA.result.CSSVars, <<"-","-","s","c","a","l","e">>) = <<"1">>

KeysOf(o) == {o[i].k : i \in 1..Len(o)}

\* the names a level declares: its variables, and its plain properties
\* kebab-cased
VariableNames(level) ==
    {VarName(level[i].k) :
        i \in {j \in 1..Len(level) : /\ IsVariableKey(level[j].k)
                                     /\ (IsLiteral(level[j].v) \/ level[j].v.t = "function")}}

PropertyNames(level) ==
    {toKebabCase(level[i].k) :
        i \in {j \in 1..Len(level) : ~IsVariableKey(level[j].k) /\ ~IsStateKey(level[j].k)}}

\* the variable has no resolver at the level
OnlyLiteral(level, varName) ==
    \A i \in 1..Len(level) :
        (IsVariableKey(level[i].k) /\ VarName(level[i].k) = varName) => IsLiteral(level[i].v)

\* the rule of a state: ".<key>:<selector> { <declarations> }"
StateRule(className, selector, declarations) ==
    <<".">> \o className \o <<":">> \o selector \o <<" ", "{", " ">>
        \o DeclarationText(declarations) \o <<" ", "}">>

\* C11: for every chain of nested state keys, the states map a root call
\* returns has an entry under the chain joined by ":" that holds the branch's
\* own variables and kebab-cased properties, and an injection that wrote to
\* the container left the entry's rule there under the selector
\* .<key>:<chain>
C11_NoBranchLost ==
    pc = "done"
        => \A run \in {r \in Runs : ~r.out.result.raised} : \A c \in Chains(run.styles) :
            LET key == join(c, <<":">>)
                level == LevelAt(run.styles, c)
                states == run.out.result.pseudoClasses
            IN  /\ HasKey(states, key)
                /\ KeysOf(Get(states, key)) = VariableNames(level) \cup PropertyNames(level)
                /\ \A i \in 1..Len(level) :
                    /\ (~IsVariableKey(level[i].k) /\ ~IsStateKey(level[i].k))
                        => Get(Get(states, key), toKebabCase(level[i].k))
                            = StringOf(level[i].v)
                    /\ (/\ IsVariableKey(level[i].k)
                        /\ OnlyLiteral(level, VarName(level[i].k)))
                        => Get(Get(states, key), VarName(level[i].k))
                            = StringOf(level[i].v)
                /\ (run.out.outcome = "injected" /\ Get(states, key) # <<>>)
                    => \E n \in 1..Len(run.out.rules) :
                        run.out.rules[n]
                            = StateRule(run.out.className, key, Get(states, key))

\* the description without the variables whose resolver throws, at every level
RECURSIVE WithoutThrowers(_)
WithoutThrowers(styles) ==
    IF styles = <<>> THEN <<>>
    ELSE LET entry == styles[1]
         IN  (IF IsVariableKey(entry.k) /\ entry.v.t = "function" /\ Throws(entry.v)
              THEN <<>>
              ELSE IF IsStateKey(entry.k) /\ entry.v.t = "object"
              THEN <<E(entry.k, Obj(WithoutThrowers(entry.v.e)))>>
              ELSE <<entry>>)
             \o WithoutThrowers(Tail(styles))

\* the variables whose resolver at the level throws
ThrownNames(level) ==
    {VarName(level[i].k) :
        i \in {j \in 1..Len(level) : /\ IsVariableKey(level[j].k)
                                     /\ level[j].v.t = "function"
                                     /\ Throws(level[j].v)}}

\* the declarations a result holds for the level of a chain
LevelVars(result, chain) ==
    IF chain = <<>> THEN result.CSSVars
    ELSE Get(result.pseudoClasses, join(chain, <<":">>))

\* C12: when a resolver throws, the transformStyles call returns, the
\* resolver's variable is "" at its level, and every other variable of every
\* level has the value it has when the description is transformed without
\* the resolvers that throw
C12_GracefulFailure ==
    pc = "done"
        => \A run \in Runs :
            run.styles # WithoutThrowers(run.styles)
            => /\ ~run.out.result.raised
               /\ \A c \in {<<>>} \cup Chains(run.styles) :
                    LET level == LevelAt(run.styles, c)
                        own == LevelVars(run.out.result, c)
                        others == LevelVars(transformStyles(WithoutThrowers(run.styles),
                                                            RootContext), c)
                    IN  /\ \A name \in ThrownNames(level) :
                            HasKey(own, name) /\ Get(own, name) = <<>>
                        /\ \A name \in VariableNames(level) \ ThrownNames(level) :
                            /\ HasKey(own, name)
                            /\ Get(own, name) = Get(others, name)
                        /\ KeysOf(own) = KeysOf(others) \cup ThrownNames(level)

\* a resolver of the base level and one of a state have thrown, and a
\* variable beside each has its value
C12_Witness ==
    /\ pc = "done"
    /\ A = Failing
    /\ outA.result.CSSVars = <<E(<<"-","-","s","c","a","l","e">>, <<"1">>),
                               E(<<"-","-","o","p","a","c","i","t","y">>, <<>>)>>
    /\ Get(outA.result.pseudoClasses, <<"h","o","v","e","r">>)
        = <<E(<<"-","-","o","p","a","c","i","t","y">>, <<"(", ")">>),
            E(<<"-","-","s","c","a","l","e">>, <<>>)>>
    /\ \E i \in 1..Len(outA.result.log) : outA.result.log[i].e = "console.warn"

\* C13: whatever the description, transformStyles and injectCSS return and
\* the render does not end in an exception
C13_NeverRaises ==
    pc = "done"
        => \A run \in Runs : ~run.out.result.raised /\ run.out.outcome # "raised"

ClassOf(key) ==
    IF Len(key) >= 2 /\ key[1] = "_" /\ key[2] = "_" THEN "variable"
    ELSE IF Len(key) >= 1 /\ key[1] = "_" THEN "state"
    ELSE "plain"

KeysOfClass(level, class) ==
    {level[i].k : i \in {j \in 1..Len(level) : ClassOf(level[j].k) = class}}

ValueOf(level, key) == level[CHOOSE i \in 1..Len(level) : level[i].k = key].v

\* the chains of the keys of class state, whatever their values
RECURSIVE StateChains(_)
StateChains(styles) ==
    UNION { {<<toKebabCase(slice(styles[i].k, 1))>>}
            \cup {<<toKebabCase(slice(styles[i].k, 1))>> \o c :
                    c \in StateChains(Entries(styles[i].v))} :
            i \in {j \in 1..Len(styles) : ClassOf(styles[j].k) = "state"} }

\* the variables a level's keys of class variable give: those whose value is
\* a literal or a function
NamesGiven(level) ==
    {<<"-", "-">> \o toKebabCase(slice(k, 2)) :
        k \in {key \in KeysOfClass(level, "variable") :
                ValueOf(level, key).t \in {"string", "number", "function"}}}

\* C15: in what a transformStyles call returns, the variables come from the
\* keys with prefix "__" and from no other key, the properties are the keys
\* with no "_" prefix with their values, and the states are the keys with
\* prefix "_" but not "__", one entry for each at every depth, whatever the
\* type of any value; within a state, the entry holds the variables and the
\* kebab-cased properties of that state's own keys
C15_PrefixDecides ==
    pc = "done"
        => \A run \in {r \in Runs : ~r.out.result.raised} :
            LET result == run.out.result
            IN  /\ KeysOf(result.CSSVars) = NamesGiven(run.styles)
                /\ KeysOf(result.regularStyles) = KeysOfClass(run.styles, "plain")
                /\ \A key \in KeysOfClass(run.styles, "plain") :
                        Get(result.regularStyles, key) = ValueOf(run.styles, key)
                /\ KeysOf(result.pseudoClasses)
                    = {join(c, <<":">>) : c \in StateChains(run.styles)}
                /\ \A c \in StateChains(run.styles) :
                        KeysOf(Get(result.pseudoClasses, join(c, <<":">>)))
                            = NamesGiven(LevelAt(run.styles, c))
                              \cup {toKebabCase(k) :
                                        k \in KeysOfClass(LevelAt(run.styles, c), "plain")}

\* a description whose variable key holds an object, whose state key holds a
\* number and whose plain key holds null: no variable, the property with its
\* value, and the state with an empty entry
C15_Witness ==
    /\ pc = "done"
    /\ A = Mistyped
    /\ outA.result.CSSVars = <<>>
    /\ outA.result.regularStyles = <<E(COLOR, Null)>>
    /\ outA.result.pseudoClasses = <<E(<<"h","o","v","e","r">>, <<>>)>>

\* the five diagnostics: the devWarn messages of transform.ts lines 51, 100,
\* 110 and 122 and the message of inject.ts line 81
Diagnostics ==
    {"unsupported pseudo-class", "state does not exist",
     "variable does not exist in state", "no base value", "Failed to insert CSS rule"}

\* C16: a render made while the warnings are disabled, or outside the
\* development environment, writes none of the five diagnostics to the
\* console
C16_DiagnosticsGated ==
    pc = "done"
        => \A run \in Runs :
            (~IS_DEV \/ ~run.out.warningsEnabled)
                => \A i \in 1..Len(run.out.console) :
                        run.out.console[i].msg \notin Diagnostics

\* C17: a render of a component whose key is the key of the render before it
\* calls neither transformStyles nor injectCSS and returns the object that
\* render returned; the first render, and a render whose key differs from
\* the one before, call transformStyles, and injectCSS with its output, and
\* return a new object
C17_SkipsWhenKeyUnchanged ==
    \A n \in 1..Len(renders) :
        IF n > 1 /\ renders[n].key = renders[n - 1].key
        THEN /\ ~renders[n].transformed
             /\ ~renders[n].injected
             /\ renders[n].returned = renders[n - 1].returned
        ELSE /\ renders[n].transformed
             /\ renders[n].returned # Null
                => /\ renders[n].injected
                   /\ \A m \in 1..(n - 1) : renders[m].returned # renders[n].returned

\* a component rendered with a description, then with the same keys in
\* another order, then with another description, then with the first again
C17_Witness ==
    /\ Len(renders) = 4
    /\ renders[1].key = renders[2].key
    /\ renders[2].returned = renders[1].returned
    /\ ~renders[2].transformed
    /\ renders[3].key # renders[2].key
    /\ renders[3].transformed
    /\ renders[4].key = renders[1].key
    /\ renders[4].transformed
    /\ renders[4].returned # renders[1].returned

\* C18: after an injectCSS call made in text mode, or in rule-object mode
\* with the sheet there, the key is in the cache and getCacheSize() counts
\* it, whatever rules the arguments build
C18_CachedAfterEveryCall ==
    (call.op = "injectCSS" /\ (IS_DEV \/ call.pre.sheetReady))
        => /\ call.args[1] \in STYLE_CACHE
           /\ Cardinality(STYLE_CACHE) = Cardinality(call.pre.STYLE_CACHE \cup {call.args[1]})

\* C19: in the order of what a root call does, no resolver is called before
\* any literal of the description is stored or before any state branch of it
\* is entered
C19_TwoPhase ==
    pc = "done"
        => \A run \in Runs :
            LET log == run.out.result.log
            IN  \A i, j \in 1..Len(log) :
                    (log[i].e = "resolve" /\ log[j].e \in {"store", "enter"}) => j < i

\* C20: a resolver that requests no state is called with the variable's
\* value in the map inherited from the enclosing level when that map has the
\* variable, else with the value its own level holds for the variable when
\* it is called, else with ""; and what the last resolver of a variable at a
\* level returns, as a string, is the variable's value at that level
C20_DefaultCurrentValue ==
    pc = "done"
        => \A run \in Runs :
            LET log == run.out.result.log
            IN  \A i \in {n \in 1..Len(log) : log[n].e = "resolve"} :
                    log[i].fromState = <<>>
                    => /\ log[i].currentValue =
                            IF ~log[i].root /\ HasKey(log[i].inherited, log[i].varName)
                            THEN Get(log[i].inherited, log[i].varName)
                            ELSE IF HasKey(log[i].own, log[i].varName)
                            THEN Get(log[i].own, log[i].varName)
                            ELSE <<>>
                       /\ (/\ log[i].returned # Null
                           /\ ~run.out.result.raised
                           /\ \A j \in (i + 1)..Len(log) :
                                ~(/\ log[j].e = "resolve"
                                  /\ log[j].at = log[i].at
                                  /\ log[j].varName = log[i].varName))
                          => Get(LevelVars(run.out.result, log[i].at), log[i].varName)
                                = log[i].returned.s

\* the resolver of the hover state, whose level holds 1.2 for the variable,
\* is called with the inherited 1, and the resolver of the base level with
\* its own level's 1; each replaces the literal of its level
C20_Witness ==
    /\ pc = "done"
    /\ A = Overwrite
    /\ \E ev \in ResolveEvents(outA) :
            /\ ev.at = <<<<"h","o","v","e","r">>>>
            /\ Get(ev.inherited, <<"-","-","s","c","a","l","e">>) = <<"1">>
            /\ Get(ev.own, <<"-","-","s","c","a","l","e">>) = <<"1",".","2">>
            /\ ev.currentValue = <<"1">>
    /\ \E ev \in ResolveEvents(outA) :
            /\ ev.at = <<>>
            /\ ev.own = <<E(<<"-","-","s","c","a","l","e">>, <<"1">>)>>
            /\ ev.currentValue = <<"1">>
    /\ outA.result.CSSVars = <<E(<<"-","-","s","c","a","l","e">>, <<"(","1",")">>)>>
    /\ Get(outA.result.pseudoClasses, <<"h","o","v","e","r">>)
        = <<E(<<"-","-","s","c","a","l","e">>, <<"(","1",")">>)>>

\* the state named is in the registry when a resolver of the level of the
\* chain at runs: it is the base state, or a branch that lies apart from the
\* level and is written before it, or a branch below the level
Registered(styles, at, name) ==
    \/ name = BASE
    \/ \E a \in Chains(styles) :
        /\ join(a, <<":">>) = name
        /\ \/ Earlier(styles, a, at)
           \/ Len(a) > Len(at) /\ SubSeq(a, 1, Len(at)) = at

\* the resolvers a description declares: the level and the variable of each
DeclaredResolvers(styles) ==
    UNION { {[at |-> c, varName |-> VarName(LevelAt(styles, c)[i].k)] :
                i \in {j \in 1..Len(LevelAt(styles, c)) :
                        /\ IsVariableKey(LevelAt(styles, c)[j].k)
                        /\ LevelAt(styles, c)[j].v.t = "function"}} :
            c \in {<<>>} \cup Chains(styles) }

\* C21: every resolver of a description whose transformation returns is
\* called.  A resolver that requests a state that is not in the registry
\* when it runs is called with "" after a devWarn call that tells the state
\* does not exist, and the call returns; one that requests a registered state
\* that has no value for the variable is called with "" after a devWarn call
\* that tells the variable does not exist in the state, and the call returns
C21_MissingStateGivesEmpty ==
    pc = "done"
        => \A run \in {r \in Runs : ~r.out.result.raised} :
            LET log == run.out.result.log
                registry == run.out.result.stateVarsMap
                Missing(i, code) ==
                    /\ log[i].currentValue = <<>>
                    /\ log[i].returned # Null
                    /\ i > 1
                    /\ log[i - 1] = Warn(code, log[i].varName)
            IN  /\ \A r \in DeclaredResolvers(run.styles) :
                    \E ev \in ResolveEvents(run.out) :
                        ev.at = r.at /\ ev.varName = r.varName
                /\ \A i \in {n \in 1..Len(log) : log[n].e = "resolve"} :
                    log[i].fromState # <<>>
                    => IF ~Registered(run.styles, log[i].at, log[i].fromState)
                       THEN Missing(i, "state does not exist")
                       ELSE ~HasKey(Get(registry, log[i].fromState), log[i].varName)
                            => Missing(i, "variable does not exist in state")

\* a resolver whose requested state is declared nowhere, while the base
\* level has a value for the variable, was called with "" after the warning
C21_Witness ==
    /\ pc = "done"
    /\ A = Undeclared
    /\ \E i \in 2..Len(outA.result.log) :
            /\ outA.result.log[i].e = "resolve"
            /\ outA.result.log[i].fromState = <<"h","o","v","e","r">>
            /\ outA.result.log[i].currentValue = <<>>
            /\ outA.result.log[i].returned = StrV(<<"(", ")">>)
            /\ outA.result.log[i - 1].e = "warn"
    /\ outA.result.CSSVars = <<E(<<"-","-","s","c","a","l","e">>, <<"1">>)>>
    /\ ~HasKey(outA.result.stateVarsMap, <<"h","o","v","e","r">>)

\* C22: a resolver of the base level that requests a state the description
\* declares, at any depth and on either side of the resolver's key, is called
\* with the value the state's entry of the result gives the variable, when
\* the state declares the variable
C22_RootSeesResolvedState ==
    pc = "done"
        => \A run \in {r \in Runs : ~r.out.result.raised} :
            \A ev \in ResolveEvents(run.out) :
                ev.at = <<>> /\ ev.fromState # <<>>
                => \A c \in Chains(run.styles) :
                    /\ join(c, <<":">>) = ev.fromState
                    /\ Declares(run.styles, c, ev.varName)
                    => /\ HasKey(run.out.result.pseudoClasses, ev.fromState)
                       /\ HasKey(LevelVars(run.out.result, c), ev.varName)
                       /\ ev.currentValue = Get(LevelVars(run.out.result, c), ev.varName)

\* the base resolver is written before the state it requests, the state's
\* own resolver has turned its literal "1" into "(1)", and the base resolver
\* was called with "(1)"
C22_Witness ==
    /\ pc = "done"
    /\ A = RootRequest
    /\ \E ev \in ResolveEvents(outA) :
            /\ ev.at = <<>>
            /\ ev.fromState = <<"h","o","v","e","r">>
            /\ ev.currentValue = <<"(", "1", ")">>
    /\ outA.result.CSSVars = <<E(<<"-","-","s","c","a","l","e">>, <<"(", "(", "1", ")", ")">>)>>

\* a base resolver that requests a nested state by its compound name was
\* called with the nested state's value
C22_WitnessNested ==
    /\ pc = "done"
    /\ A = RootRequestNested
    /\ \E ev \in ResolveEvents(outA) :
            /\ ev.at = <<>>
            /\ ev.fromState = <<"h","o","v","e","r",":","d","i","s","a","b","l","e","d">>
            /\ ev.currentValue = <<"1", ".", "2">>

\* the declarations of the base rule: the variables, then the properties
\* under their kebab-cased names
BaseDeclarations(CSSVars, regularStyles) ==
    CSSVars \o [i \in 1..Len(regularStyles) |->
                    E(toKebabCase(regularStyles[i].k), StringOf(regularStyles[i].v))]

\* the rules a call is to append: the base rule unless it has no
\* declaration, then the rule of each state that has a declaration, in the
\* order of the states map
ExpectedRules(hash, CSSVars, regularStyles, pseudoClasses) ==
    (IF CSSVars = <<>> /\ regularStyles = <<>> THEN <<>>
     ELSE << <<".">> \o hash \o <<" ", "{", " ">>
             \o DeclarationText(BaseDeclarations(CSSVars, regularStyles))
             \o <<" ", "}">> >>)
    \o FlatMap(LAMBDA i : IF pseudoClasses[i].v = <<>> THEN <<>>
                          ELSE <<StateRule(hash, pseudoClasses[i].k, pseudoClasses[i].v)>>,
               1, Len(pseudoClasses))

CallExpected == ExpectedRules(call.args[1], call.args[2], call.args[3], call.args[4])

\* the container is as before the call, with the rules appended
AppendedToContainer(rules) ==
    IF IS_DEV
    THEN /\ textContent = call.pre.textContent
                \o FlatMap(LAMBDA i : rules[i] \o <<"\n">>, 1, Len(rules))
         /\ cssRules = call.pre.cssRules
    ELSE /\ cssRules = call.pre.cssRules \o rules
         /\ textContent = call.pre.textContent

\* an injectCSS call whose key is not in the cache appends the base rule
\* and the rule of each state that has a declaration, in either mode,
\* whatever the sheet
C23_AsStated ==
    (call.op = "injectCSS" /\ call.args[1] \notin call.pre.STYLE_CACHE)
        => AppendedToContainer(CallExpected)

\* C23: an injectCSS call whose key is not in the cache appends, in text
\* mode, the base rule (the variables, then the kebab-cased properties; no
\* rule when there is neither) and then the rule of each state that has a
\* declaration, in the order of the states map, and nothing else; in
\* rule-object mode it appends those of these rules that insertRule
\* accepts, in that order, when the rule list is there, and nothing when it
\* is not
C23_AppendsItsRules ==
    (call.op = "injectCSS" /\ call.args[1] \notin call.pre.STYLE_CACHE)
        => AppendedToContainer(IF IS_DEV THEN CallExpected
                               ELSE IF call.pre.sheetReady
                               THEN SelectSeq(CallExpected, InsertRuleAccepts)
                               ELSE <<>>)

\* a call with a base rule, a state without declarations and a state with
\* one has appended two rules to a container that held some
C23_Witness ==
    /\ call.op = "injectCSS"
    /\ call.args[1] \notin call.pre.STYLE_CACHE
    /\ call.args[3] # <<>>
    /\ \E i \in 1..Len(call.args[4]) : call.args[4][i].v = <<>>
    /\ Len(CallExpected) = 2
    /\ Len(ContainerRules) > 2
    /\ AppendedToContainer(CallExpected)

\* the description with every state key _glow written _focus, at every level
RECURSIVE Recognized(_)
Recognized(styles) ==
    [i \in 1..Len(styles) |->
        E(IF styles[i].k = GLOW THEN FOCUS ELSE styles[i].k,
          IF IsStateKey(styles[i].k) /\ styles[i].v.t = "object"
          THEN Obj(Recognized(styles[i].v.e))
          ELSE styles[i].v)]

\* the chain with every "glow" written "focus"
RecognizedChain(chain) ==
    [i \in 1..Len(chain) |->
        IF chain[i] = StateName(GLOW) THEN StateName(FOCUS) ELSE chain[i]]

\* the chains of a description that have a name that is none of the
\* supported pseudo-classes
UnrecognizedChains(styles) ==
    {c \in Chains(styles) : \E i \in 1..Len(c) : c[i] \notin MOST_COMMON_PSEUDO_CLASSES_SET}

\* the transformer's part of C24: the branch of an unrecognized name is
\* stored in the states map and registered under its kebab-cased name, the
\* transformer's devWarn call is all that tells of it, and the result is
\* what it is for the description with a recognized name in its place
C24_TransformerPassesThrough ==
    pc = "done"
        => \A run \in {r \in Runs : UnrecognizedChains(r.styles) # {}} :
            LET result == run.out.result
                other == transformStyles(Recognized(run.styles), RootContext)
            IN  /\ ~result.raised
                /\ result.CSSVars = other.CSSVars
                /\ result.regularStyles = other.regularStyles
                /\ Len(result.pseudoClasses) = Len(other.pseudoClasses)
                /\ \A c \in Chains(run.styles) :
                    /\ HasKey(result.pseudoClasses, join(c, <<":">>))
                    /\ HasKey(result.stateVarsMap, join(c, <<":">>))
                    /\ Get(result.pseudoClasses, join(c, <<":">>))
                        = Get(other.pseudoClasses, join(RecognizedChain(c), <<":">>))
                /\ \A c \in UnrecognizedChains(run.styles) :
                    \E i \in 1..Len(result.log) :
                        result.log[i] = Warn("unsupported pseudo-class", c[Len(c)])

\* C24: a state whose name is none of the supported pseudo-classes is
\* transformed, stored and registered under its kebab-cased name like any
\* other, an injection that wrote to the container left its rule there under
\* .<key>:<name>, and nothing but warnings reached the console
C24_UnrecognizedPassesThrough ==
    /\ C24_TransformerPassesThrough
    /\ pc = "done"
        => \A run \in {r \in Runs : UnrecognizedChains(r.styles) # {}} :
            run.out.outcome = "injected"
            => /\ \A c \in UnrecognizedChains(run.styles) :
                    Get(run.out.result.pseudoClasses, join(c, <<":">>)) # <<>>
                    => \E n \in 1..Len(run.out.rules) :
                        run.out.rules[n]
                            = StateRule(run.out.className, join(c, <<":">>),
                                        Get(run.out.result.pseudoClasses, join(c, <<":">>)))
               /\ \A i \in 1..Len(run.out.console) : run.out.console[i].level = "warn"

\* the plain properties of a level, as written
PlainProperties(level) ==
    SelectSeq(level, LAMBDA entry : ~IsVariableKey(entry.k) /\ ~IsStateKey(entry.k))

\* a state's registry entry is the flat map stored for it in the states
\* map, and a resolver that requests the state is given the flat map's value
C25_AsStated ==
    pc = "done"
        => \A run \in {r \in Runs : ~r.out.result.raised} :
            /\ \A c \in Chains(run.styles) :
                Get(run.out.result.stateVarsMap, join(c, <<":">>))
                    = Get(run.out.result.pseudoClasses, join(c, <<":">>))
            /\ \A ev \in ResolveEvents(run.out) :
                (/\ ev.fromState \notin {<<>>, BASE}
                 /\ Registered(run.styles, ev.at, ev.fromState)
                 /\ HasKey(Get(run.out.result.pseudoClasses, ev.fromState), ev.varName))
                => ev.currentValue
                    = Get(Get(run.out.result.pseudoClasses, ev.fromState), ev.varName)

\* C25: a state's registry entry is the map of the state's variables alone;
\* the flat map stored for the state in the states map is that map with the
\* state's kebab-cased properties put into it; and a resolver that requests
\* a registered state is given the registry entry's value for its variable,
\* or "" when the entry has none
C25_RegistryHoldsVariables ==
    pc = "done"
        => \A run \in {r \in Runs : ~r.out.result.raised} :
            LET registry == run.out.result.stateVarsMap
                states == run.out.result.pseudoClasses
            IN  /\ \A c \in Chains(run.styles) :
                    LET key == join(c, <<":">>)
                    IN  /\ HasKey(registry, key) /\ HasKey(states, key)
                        /\ KeysOf(Get(registry, key)) = VariableNames(LevelAt(run.styles, c))
                        /\ Get(states, key)
                            = Assign(Get(registry, key),
                                     BaseDeclarations(<<>>,
                                        PlainProperties(LevelAt(run.styles, c))))
                /\ \A ev \in ResolveEvents(run.out) :
                    (/\ ev.fromState \notin {<<>>, BASE}
                     /\ Registered(run.styles, ev.at, ev.fromState))
                    => ev.currentValue
                        = IF HasKey(Get(registry, ev.fromState), ev.varName)
                          THEN Get(Get(registry, ev.fromState), ev.varName)
                          ELSE <<>>

\* the state requested has a variable and a property: its registry entry
\* holds the variable alone, its states entry both, and the resolver was
\* given the variable's value
C25_Witness ==
    /\ pc = "done"
    /\ A = CrossNested
    /\ KeysOf(Get(outA.result.stateVarsMap,
                  <<"h","o","v","e","r",":","d","i","s","a","b","l","e","d">>))
        = {<<"-","-","s","c","a","l","e">>}
    /\ KeysOf(Get(outA.result.pseudoClasses,
                  <<"h","o","v","e","r",":","d","i","s","a","b","l","e","d">>))
        = {<<"-","-","s","c","a","l","e">>, <<"c","o","l","o","r">>}
    /\ \E ev \in ResolveEvents(outA) :
            /\ ev.fromState = <<"h","o","v","e","r",":","d","i","s","a","b","l","e","d">>
            /\ ev.currentValue = <<"1", ".", "2">>

\* s is the beginning of t
IsPrefix(s, t) == Len(s) <= Len(t) /\ SubSeq(t, 1, Len(s)) = s

\* C26: after an injectCSS call, whatever its outcome, the element's text
\* begins with the text it had before the call, the rule list begins with
\* the rules it had before the call, and every key that was in the cache
\* before the call is in it
C26_OnlyAppends ==
    call.op = "injectCSS"
        => /\ IsPrefix(call.pre.textContent, textContent)
           /\ IsPrefix(call.pre.cssRules, cssRules)
           /\ call.pre.STYLE_CACHE \subseteq STYLE_CACHE

\* a call one of whose rules insertRule rejected was made with a rule in
\* the container and a key in the cache, and added a rule and its key
C26_Witness ==
    /\ call.op = "injectCSS"
    /\ call.console # <<>>
    /\ call.outcome = "injected"
    /\ call.pre.cssRules # <<>>
    /\ call.pre.STYLE_CACHE # {}
    /\ Len(cssRules) > Len(call.pre.cssRules)
    /\ call.args[1] \notin call.pre.STYLE_CACHE

\* the resolvers of a description that throw: the level and the position of
\* each
ThrowingResolvers(styles) ==
    UNION { {<<c, i>> : i \in {j \in 1..Len(LevelAt(styles, c)) :
                                /\ IsVariableKey(LevelAt(styles, c)[j].k)
                                /\ LevelAt(styles, c)[j].v.t = "function"
                                /\ Throws(LevelAt(styles, c)[j].v)}} :
            c \in {<<>>} \cup Chains(styles) }

\* the reports of a resolver's exception on the console of a run
ResolverReports(out) ==
    {i \in 1..Len(out.console) : out.console[i].msg = "Error resolving variable"}

\* C27: whatever the environment and whatever the warnings toggle when the
\* hook runs, the console has one report for each resolver of the
\* description that throws, and, when the hook runs in rule-object mode with
\* rules to insert and the element has no rule list, the report that the
\* style sheet is not available
C27_HardErrorsAlwaysEmitted ==
    pc = "done"
        => \A run \in {r \in Runs : ~r.out.result.raised} :
            /\ Cardinality(ResolverReports(run.out))
                = Cardinality(ThrowingResolvers(run.styles))
            /\ (/\ ~IS_DEV
                /\ ~sheetReady
                /\ ExpectedRules(run.out.className, run.out.result.CSSVars,
                                 run.out.result.regularStyles,
                                 run.out.result.pseudoClasses) # <<>>)
                => \E i \in 1..Len(run.out.console) :
                    run.out.console[i]
                        = [level |-> "error", msg |-> "CSSStyleSheet not available."]

\* outside development, with the warnings disabled and no rule list, a
\* description with two resolvers that throw has left two reports and the
\* report that the style sheet is not available
C27_Witness ==
    /\ pc = "done"
    /\ ~IS_DEV
    /\ ~sheetReady
    /\ ~outA.warningsEnabled
    /\ A = Failing
    /\ Cardinality(ResolverReports(outA)) = 2
    /\ outA.outcome = "no sheet"
    /\ Len(outA.console) = 3

\* one step of the standard 32-bit FNV-1a: the low 32 bits of the exact
\* product of (hash XOR code) and the prime
StandardStep(hash, code) ==
    LET p == ExactProduct(<<hash[1], BitXor(hash[2], code)>>)
    IN  <<p[3], p[4]>>

\* the standard FNV-1a of str[lo..hi], started with hash; the range is
\* walked by halves, in order
RECURSIVE StandardLoop(_, _, _, _)
StandardLoop(hash, str, lo, hi) ==
    IF lo > hi THEN hash
    ELSE IF lo = hi THEN StandardStep(hash, charCodeAt(str[lo]))
    ELSE LET mid == (lo + hi) \div 2
         IN  With(StandardLoop(hash, str, lo, mid),
                  LAMBDA left : StandardLoop(left, str, mid + 1, hi))

StandardFnv1a(str) == toBase36(StandardLoop(FNV_OFFSET_BASIS, str, 1, Len(str)))

\* C28: the key of a run is "vw-" followed by the base-36 rendering of the
\* standard 32-bit FNV-1a hash of the serialization: from 2166136261, for
\* each code unit c, ((hash XOR c) * 16777619) mod 2^32 with the exact
\* product
C28_IsStandardFnv1a ==
    pc = "done"
        => \A run \in Runs :
            /\ fnv1a(run.out.stableString) = StandardFnv1a(run.out.stableString)
            /\ run.out.className = <<"v", "w", "-">> \o StandardFnv1a(run.out.stableString)

\* the rules the description gives under its key
RulesOf(computed) ==
    ExpectedRules(computed.className, computed.result.CSSVars,
                  computed.result.regularStyles, computed.result.pseudoClasses)

\* the rules are in the container
InContainer(rules) ==
    \A i \in 1..Len(rules) : \E n \in 1..Len(ContainerRules) : ContainerRules[n] = rules[i]

\* C29: whenever the component is mounted and its latest render returned a
\* key, the container has every rule of that key: all the rules one of the
\* descriptions of that key gives (key-order variants of a description share
\* the key)
C29_MountedClassHasRules ==
    (renders # <<>> /\ renders[Len(renders)].returned # Null)
        => \E styles \in HookDescriptions :
            /\ Computed[styles].className = renders[Len(renders)].returned.className
            /\ ~Computed[styles].result.raised
            /\ InContainer(RulesOf(Computed[styles]))

\* C30: the document never has more than one element with the id; an
\* injectCSS call leaves the one there is and makes one only when there is
\* none, and makes none when the key is cached; after removeStyles there is
\* none; getInjectedCSS leaves the number as it is
C30_SingleContainer ==
    /\ styleTags <= 1
    /\ call.op = "injectCSS"
        => styleTags = IF call.pre.tagExists \/ call.outcome = "skipped"
                       THEN call.pre.styleTags ELSE 1
    /\ call.op = "removeStyles" => styleTags = 0
    /\ call.op = "getInjectedCSS" => styleTags = call.pre.styleTags

\* getInjectedCSS was called with no element in the document, right after
\* a removeStyles call that removed the one element, which held rules, and it
\* made none
C30_Witness ==
    /\ call.op = "getInjectedCSS"
    /\ call.result = <<>>
    /\ call.pre.styleTags = 0
    /\ styleTags = 0
    /\ prev.op = "removeStyles"
    /\ prev.pre.styleTags = 1
    /\ prev.pre.textContent # <<>>

====
